---------------------------- MODULE Spec2Model ----------------------------
(***************************************************************************)
(* A model of the batched form-extraction pipeline of underwrite_iq:       *)
(*   src/src/services/openaiService.js  extractFormStructure,              *)
(*       processImageBatch, combineResults, normalizeFormStructure,        *)
(*       normalizeField, normalizeComponentType                            *)
(*   src/src/utils/helpers.js           generateId, extractJsonFromText,   *)
(*       safeJsonParse                                                     *)
(*   src/unnamed/part_000               the stand-alone server's copy of   *)
(*       processImageBatch (response handling) and of the merge            *)
(* and of its training store:                                              *)
(*   src/src/services/trainingService.js  createForm, getFormById,         *)
(*       updateExtraction, deleteForm, getVerifiedForms, exportToJsonl,    *)
(*       getStats                                                          *)
(*   src/unnamed/part_003               the training routes (POST /export) *)
(*                                                                         *)
(* JavaScript values are modelled as follows.                              *)
(*   - A string the code only tests for truthiness and copies (an id, a    *)
(*     label, a title) is a TLA+ string; "" stands for every falsy value   *)
(*     (undefined, null, "", 0, false), which `x || default` all replace.  *)
(*   - A number the code only tests and copies (order, rowCount) is a      *)
(*     natural; 0 stands for every falsy value.                            *)
(*   - A value the code calls methods on (component/type, sections,        *)
(*     fields, the elements of those lists, the parsed document) is a      *)
(*     record tagged with its JavaScript type in field t.                  *)
(*   - A string whose characters the code inspects (component/type, which  *)
(*     is lower-cased, and the text of a model response, which is          *)
(*     lower-cased, searched, cut and parsed) is a sequence of             *)
(*     one-character strings; in a response text the members of a JSON     *)
(*     object are written as one token between its braces.                 *)
(*   - A thrown exception is a result record with ok = FALSE and the       *)
(*     error's kind in err.                                                *)
(*   - A table of the training database is the list of its rows; a JSON   *)
(*     text stored in a column is a record holding the value it denotes.   *)
(***************************************************************************)
EXTENDS Integers, Sequences, FiniteSets, TLC

\* ------------------------------------------------------------------------
\* Bounds of the model
\* ------------------------------------------------------------------------

\* The longest page sequence handed to extractFormStructure.
MaxPages == 7

\* The most sections in one model response, and the most fields in one
\* section.
MaxSections == 2
MaxFields == 2

\* The most batch results handed to combineResults when it is checked as a
\* function on its own.
MaxResults == 3

\* The most forms createForm puts into the training store in one run,
\* deleted ones included.
MaxForms == 2

\* ------------------------------------------------------------------------
\* Program constants
\* ------------------------------------------------------------------------

\* openaiService.js:10
MAX_PAGES_PER_BATCH == 3

\* openaiService.js:446-449, the ten canonical component names
validTypes ==
    { "Signature", "Multi-Select", "File Upload", "Short Input", "Sections",
      "Dropdown", "Radio Select", "Table", "Title", "Long Input" }

\* openaiService.js:13-24. The values come from the environment; a configured
\* id is written "cid:<name>".
COMPONENT_IDS == [ k \in validTypes |-> "cid:" \o k ]

\* openaiService.js:404-441
typeMap ==
    LET entries ==
          { << "signature", "Signature" >>,
            << "multi-select", "Multi-Select" >>,
            << "multiselect", "Multi-Select" >>,
            << "checkbox", "Multi-Select" >>,
            << "checkboxes", "Multi-Select" >>,
            << "file upload", "File Upload" >>,
            << "fileupload", "File Upload" >>,
            << "file", "File Upload" >>,
            << "attachment", "File Upload" >>,
            << "short input", "Short Input" >>,
            << "shortinput", "Short Input" >>,
            << "text", "Short Input" >>,
            << "textfield", "Short Input" >>,
            << "input", "Short Input" >>,
            << "sections", "Sections" >>,
            << "section", "Sections" >>,
            << "dropdown", "Dropdown" >>,
            << "select", "Dropdown" >>,
            << "radio select", "Radio Select" >>,
            << "radioselect", "Radio Select" >>,
            << "radio", "Radio Select" >>,
            << "table", "Table" >>,
            << "grid", "Table" >>,
            << "title", "Title" >>,
            << "heading", "Title" >>,
            << "header", "Title" >>,
            << "long input", "Long Input" >>,
            << "longinput", "Long Input" >>,
            << "textarea", "Long Input" >>,
            << "multiline", "Long Input" >>,
            << "paragraph", "Long Input" >>,
            << "instruction", "Title" >>,
            << "instructions", "Title" >>,
            << "guidance", "Title" >>,
            << "note", "Title" >>,
            << "info", "Title" >> }
    IN  [ key \in { e[1] : e \in entries } |->
            (CHOOSE e \in entries : e[1] = key)[2] ]

\* typeMap is an object literal, so typeMap[key] also finds what every
\* JavaScript object inherits from Object.prototype. Of the inherited names
\* only these two are all lower case, hence reachable after toLowerCase();
\* each yields a truthy value that is no string.
inheritedProps ==
    [ key \in { "constructor", "__proto__" } |->
        IF key = "constructor" THEN "[Function: Object]"
        ELSE "[Object: null prototype] {}" ]

\* ------------------------------------------------------------------------
\* Strings as character sequences
\* ------------------------------------------------------------------------

upperCase ==
    << "A", "B", "C", "D", "E", "F", "G", "H", "I", "J", "K", "L", "M",
       "N", "O", "P", "Q", "R", "S", "T", "U", "V", "W", "X", "Y", "Z" >>
lowerCase ==
    << "a", "b", "c", "d", "e", "f", "g", "h", "i", "j", "k", "l", "m",
       "n", "o", "p", "q", "r", "s", "t", "u", "v", "w", "x", "y", "z" >>
upperToLower ==
    [ c \in { upperCase[n] : n \in 1..26 } |->
        lowerCase[CHOOSE n \in 1..26 : upperCase[n] = c] ]

\* String.prototype.toLowerCase on a character sequence
toLowerCase(cs) ==
    [ i \in 1..Len(cs) |->
        IF cs[i] \in DOMAIN upperToLower THEN upperToLower[cs[i]] ELSE cs[i] ]

\* The string a character sequence spells
RECURSIVE str(_)
str(cs) == IF cs = << >> THEN "" ELSE Head(cs) \o str(Tail(cs))

\* ------------------------------------------------------------------------
\* normalizeComponentType
\* ------------------------------------------------------------------------

\* A value of field.component / field.type as JSON.parse can deliver it:
\* t is "undefined" (key absent), "null", "string" (cs its characters),
\* "number" or "boolean" (truthy tells which), "array" or "object".
isFalsy(v) ==
    \/ v.t \in { "undefined", "null" }
    \/ v.t = "string" /\ v.cs = << >>
    \/ v.t \in { "number", "boolean" } /\ ~v.truthy

\* The result is [ok |-> TRUE, value |-> what is returned] or
\* [ok |-> FALSE, err |-> "TypeError"] when type.toLowerCase is not a
\* function.
normalizeComponentType(type) ==
    IF isFalsy(type) THEN [ ok |-> TRUE, value |-> "Short Input" ]
    ELSE IF type.t # "string" THEN [ ok |-> FALSE, err |-> "TypeError" ]
    ELSE LET key == str(toLowerCase(type.cs))
             normalized ==
                 IF key \in DOMAIN typeMap THEN typeMap[key]
                 ELSE IF key \in DOMAIN inheritedProps THEN inheritedProps[key]
                 ELSE ""
         IN  IF normalized # "" THEN [ ok |-> TRUE, value |-> normalized ]
             ELSE IF str(type.cs) \in validTypes
                  THEN [ ok |-> TRUE, value |-> str(type.cs) ]
                  ELSE [ ok |-> TRUE, value |-> "Short Input" ]

\* ------------------------------------------------------------------------
\* Property reads, generateId
\* ------------------------------------------------------------------------

undefined == [ t |-> "undefined" ]

\* object.name for a parsed JSON value: the own property of an object, and
\* undefined (here: the falsy value `absent` of the property's model type)
\* for a missing key and for every property of a number, string, boolean or
\* array element. Reading a property of null throws; the callers test for
\* null before they read.
prop(object, name, absent) ==
    IF object.t = "object" /\ name \in DOMAIN object THEN object[name] ELSE absent

\* helpers.js generateId: `${prefix}_${uuidv4().split('-')[0]}`. The k-th
\* uuid drawn in a run is modelled as the k-th of a sequence of pairwise
\* distinct 8-digit strings, so two draws never collide.
generateId(prefix, k) == prefix \o "_" \o ToString(10000000 + k)

\* ------------------------------------------------------------------------
\* normalizeField
\* ------------------------------------------------------------------------

isSelect(componentName) ==
    componentName \in { "Multi-Select", "Radio Select", "Dropdown" }

emptyArray == [ t |-> "array", v |-> << >> ]

\* field.component || field.type
rawComponent(field) ==
    IF isFalsy(prop(field, "component", undefined))
    THEN prop(field, "type", undefined)
    ELSE prop(field, "component", undefined)

\* field.rowCount || (field.rows ? field.rows.length : 0); a truthy rows
\* that is no array (an object, a number) has no length
rowCountOf(rowCount, rows) ==
    IF rowCount # 0 THEN [ t |-> "number", n |-> rowCount ]
    ELSE IF isFalsy(rows) THEN [ t |-> "number", n |-> 0 ]
    ELSE IF rows.t = "array" THEN [ t |-> "number", n |-> Len(rows.v) ]
    ELSE undefined

\* The object normalizeField builds once normalizeComponentType has
\* returned componentName; uuid is the uuid generateId draws if it is called.
normalizedField(field, fieldIndex, uuid, componentName) ==
    [ id          |-> IF prop(field, "id", "") # "" THEN field.id
                      ELSE generateId("field", uuid),
      component   |-> componentName,
      componentId |-> IF componentName \in DOMAIN COMPONENT_IDS
                      THEN COMPONENT_IDS[componentName] ELSE "null",
      label       |-> IF prop(field, "label", "") # "" THEN field.label
                      ELSE "Field " \o ToString(fieldIndex + 1),
      required    |-> prop(field, "required", FALSE),
      order       |-> IF prop(field, "order", 0) # 0 THEN field.order
                      ELSE fieldIndex + 1 ]
    @@ ( IF isSelect(componentName)
         THEN [ options |-> IF isFalsy(prop(field, "options", undefined))
                            THEN emptyArray ELSE field.options ]
         ELSE << >> )
    @@ ( IF componentName = "Table"
         THEN [ columns  |-> IF isFalsy(prop(field, "columns", undefined))
                             THEN emptyArray ELSE field.columns,
                rowCount |-> rowCountOf(prop(field, "rowCount", 0),
                                        prop(field, "rows", undefined)) ]
         ELSE << >> )
    @@ ( IF prop(field, "placeholder", "") # ""
         THEN [ placeholder |-> field.placeholder ]
         ELSE << >> )

\* c is what normalizeComponentType(field.component || field.type) returned
\* or threw.
normalizeFieldWith(field, fieldIndex, uuid, c) ==
    IF ~c.ok THEN [ ok |-> FALSE, err |-> c.err ]
    ELSE [ ok |-> TRUE, value |-> normalizedField(field, fieldIndex, uuid, c.value) ]

\* field is an element of a parsed fields list, fieldIndex its 0-based
\* position, uuid the uuid it draws if it has no id. Reading field.component
\* of null throws.
normalizeField(field, fieldIndex, uuid) ==
    IF field.t = "null" THEN [ ok |-> FALSE, err |-> "TypeError" ]
    ELSE normalizeFieldWith(field, fieldIndex, uuid,
                            normalizeComponentType(rawComponent(field)))

\* ------------------------------------------------------------------------
\* normalizeFormStructure
\* ------------------------------------------------------------------------

\* `list || []` followed by .map(f): a falsy value maps as the empty list,
\* an array maps, and on any other truthy value .map is not a function.
listOf(v) ==
    IF isFalsy(v) THEN [ ok |-> TRUE, value |-> << >> ]
    ELSE IF v.t = "array" THEN [ ok |-> TRUE, value |-> v.v ]
    ELSE [ ok |-> FALSE, err |-> "TypeError" ]

\* The number of uuids drawn for the first n elements of list: one for
\* every element without an id
missingIds(list, n) ==
    Cardinality({ j \in 1..n : prop(list[j], "id", "") = "" })

\* The number of uuids normalizing one section draws: one for the section
\* without an id and one for each of its fields without an id
drawsOf(section) ==
    ( IF prop(section, "id", "") = "" THEN 1 ELSE 0 )
    + ( IF listOf(prop(section, "fields", undefined)).ok
        THEN missingIds(listOf(prop(section, "fields", undefined)).value,
                        Len(listOf(prop(section, "fields", undefined)).value))
        ELSE 0 )

\* The number of uuids drawn for the first n sections
RECURSIVE drawsFor(_, _)
drawsFor(sections, n) ==
    IF n = 0 THEN 0 ELSE drawsFor(sections, n - 1) + drawsOf(sections[n])

\* fields.map((field, fieldIndex) => normalizeField(field, fieldIndex)):
\* the outcome for every element. The map runs in order, so the uuid of
\* element j comes after those of the elements before it.
mapFields(fields, draws) ==
    [ j \in 1..Len(fields) |->
        normalizeField(fields[j], j - 1, draws + missingIds(fields, j - 1) + 1) ]

\* The object the callback of sections.map returns, given the outcomes of
\* its fields
normalizedSection(section, sectionIndex, draws, outcomes) ==
    IF \E j \in 1..Len(outcomes) : ~outcomes[j].ok
    THEN [ ok |-> FALSE, err |-> "TypeError" ]
    ELSE [ ok    |-> TRUE,
           value |-> [ id     |-> IF prop(section, "id", "") # "" THEN section.id
                                  ELSE generateId("section", draws + 1),
                       title  |-> IF prop(section, "title", "") # ""
                                  THEN section.title
                                  ELSE "Section " \o ToString(sectionIndex + 1),
                       order  |-> IF prop(section, "order", 0) # 0
                                  THEN section.order ELSE sectionIndex + 1,
                       fields |-> [ j \in 1..Len(outcomes) |-> outcomes[j].value ] ] ]

normalizeSectionWith(section, sectionIndex, draws, fields) ==
    IF ~fields.ok THEN [ ok |-> FALSE, err |-> fields.err ]
    ELSE normalizedSection(section, sectionIndex, draws,
             mapFields(fields.value,
                       IF prop(section, "id", "") # "" THEN draws ELSE draws + 1))

\* The callback of sections.map for one section; draws is the number of
\* uuids drawn before it. Reading section.id of null throws.
normalizeSection(section, sectionIndex, draws) ==
    IF section.t = "null" THEN [ ok |-> FALSE, err |-> "TypeError" ]
    ELSE normalizeSectionWith(section, sectionIndex, draws,
                              listOf(prop(section, "fields", undefined)))

mapSections(sections, draws) ==
    [ k \in 1..Len(sections) |->
        normalizeSection(sections[k], k - 1, draws + drawsFor(sections, k - 1)) ]

\* The object normalizeFormStructure returns, given the outcomes of its
\* sections
normalizedStructure(data, outcomes) ==
    IF \E k \in 1..Len(outcomes) : ~outcomes[k].ok
    THEN [ ok |-> FALSE, err |-> "TypeError" ]
    ELSE [ ok    |-> TRUE,
           value |-> [ formTitle |-> IF prop(data, "formTitle", "") # ""
                                     THEN data.formTitle ELSE "Untitled Form",
                       sections  |-> [ k \in 1..Len(outcomes) |->
                                         outcomes[k].value ] ] ]

normalizeFormStructureWith(data, draws, sections) ==
    IF ~sections.ok THEN [ ok |-> FALSE, err |-> sections.err ]
    ELSE normalizedStructure(data, mapSections(sections.value, draws))

\* data is the value JSON.parse returned, draws the number of uuids drawn
\* before the call. The result is [ok |-> TRUE, value |-> the structure] or
\* [ok |-> FALSE, err |-> "TypeError"]. Reading data.formTitle of null
\* throws.
normalizeFormStructure(data, draws) ==
    IF data.t = "null" THEN [ ok |-> FALSE, err |-> "TypeError" ]
    ELSE normalizeFormStructureWith(data, draws,
                                    listOf(prop(data, "sections", undefined)))

\* The uuids normalizeFormStructure(data) draws when it returns
drawsIn(data) ==
    drawsFor(listOf(prop(data, "sections", undefined)).value,
             Len(listOf(prop(data, "sections", undefined)).value))

\* ------------------------------------------------------------------------
\* combineResults
\* ------------------------------------------------------------------------

\* A variant of renumberSection that numbers the fields within their section
\* only, as normalizeFormStructure's defaults do: `field_${idx + 1}`
renumberSectionFieldIndexOnly(section, sectionOrder) ==
    [ section EXCEPT
        !.id = "section_" \o ToString(sectionOrder),
        !.order = sectionOrder,
        !.fields = [ idx \in 1..Len(section.fields) |->
                       [ section.fields[idx] EXCEPT
                           !.id = "field_" \o ToString(idx) ] ] ]

\* A variant of renumberSection that renumbers the fields' order too
renumberSectionFieldOrders(section, sectionOrder) ==
    [ section EXCEPT
        !.id = "section_" \o ToString(sectionOrder),
        !.order = sectionOrder,
        !.fields = [ idx \in 1..Len(section.fields) |->
                       [ section.fields[idx] EXCEPT
                           !.id = "field_" \o ToString(sectionOrder)
                                  \o "_" \o ToString(idx),
                           !.order = idx ] ] ]

\* The sections of results[r..] appended to allSections, each renumbered
\* with the running counter sectionOrder = Len(allSections) + 1.
renumberSection(section, sectionOrder) ==
    [ section EXCEPT
        !.id = "section_" \o ToString(sectionOrder),
        !.order = sectionOrder,
        !.fields = [ idx \in 1..Len(section.fields) |->
                       [ section.fields[idx] EXCEPT
                           !.id = "field_" \o ToString(sectionOrder)
                                  \o "_" \o ToString(idx) ] ] ]

\* A variant of combineSections whose counter starts again with every
\* result: `let sectionOrder = 0` inside the outer loop
RECURSIVE combineSectionsPerBatch(_, _, _, _)
combineSectionsPerBatch(results, r, s, allSections) ==
    IF r > Len(results) THEN allSections
    ELSE IF s > Len(results[r].sections)
         THEN combineSectionsPerBatch(results, r + 1, 1, allSections)
         ELSE combineSectionsPerBatch(results, r, s + 1,
                  Append(allSections,
                         renumberSection(results[r].sections[s], s)))

\* A variant of combineSections that puts each section before those
\* gathered so far: allSections.unshift(...)
RECURSIVE combineSectionsNewestFirst(_, _, _, _)
combineSectionsNewestFirst(results, r, s, allSections) ==
    IF r > Len(results) THEN allSections
    ELSE IF s > Len(results[r].sections)
         THEN combineSectionsNewestFirst(results, r + 1, 1, allSections)
         ELSE combineSectionsNewestFirst(results, r, s + 1,
                  << renumberSection(results[r].sections[s],
                                     Len(allSections) + 1) >>
                  \o allSections)

RECURSIVE combineSections(_, _, _, _)
combineSections(results, r, s, allSections) ==
    IF r > Len(results) THEN allSections
    ELSE IF s > Len(results[r].sections)
         THEN combineSections(results, r + 1, 1, allSections)
         ELSE combineSections(results, r, s + 1,
                  Append(allSections,
                         renumberSection(results[r].sections[s],
                                         Len(allSections) + 1)))

\* A variant of combineResults that takes the title of the last result
combineResultsLastTitle(results) ==
    IF Len(results) = 0 THEN [ formTitle |-> "Untitled Form", sections |-> << >> ]
    ELSE IF Len(results) = 1 THEN results[1]
    ELSE [ formTitle |-> IF results[Len(results)].formTitle # ""
                         THEN results[Len(results)].formTitle
                         ELSE "Untitled Form",
           sections  |-> combineSections(results, 1, 1, << >>) ]

\* A variant of combineResults without the shortcut for a single result,
\* which is renumbered as the results of several batches are
combineResultsAlwaysRenumbers(results) ==
    IF Len(results) = 0 THEN [ formTitle |-> "Untitled Form", sections |-> << >> ]
    ELSE [ formTitle |-> IF results[1].formTitle # "" THEN results[1].formTitle
                         ELSE "Untitled Form",
           sections  |-> combineSections(results, 1, 1, << >>) ]

\* results is a list of structures normalizeFormStructure returned, so the
\* guards `result.sections || []` and `section.fields || []` always take
\* the list.
combineResults(results) ==
    IF Len(results) = 0 THEN [ formTitle |-> "Untitled Form", sections |-> << >> ]
    ELSE IF Len(results) = 1 THEN results[1]
    ELSE [ formTitle |-> IF results[1].formTitle # "" THEN results[1].formTitle
                         ELSE "Untitled Form",
           sections  |-> combineSections(results, 1, 1, << >>) ]

\* A variant of resultsAfterCombine for a merge that renumbers the sections
\* of the results it was given in place instead of copying them
resultsAfterCombineInPlace(results) ==
    IF Len(results) < 2 THEN results
    ELSE [ r \in 1..Len(results) |->
             [ results[r] EXCEPT !.sections =
                 [ s \in 1..Len(@) |-> renumberSection(@[s], s) ] ] ]

\* The list handed to combineResults as the call leaves it. Every write of
\* the function goes to a local (sectionOrder, allSections) or to an object
\* it has just created ({ ...section, id, order, fields } and { ...field,
\* id }); no statement assigns to results, to a result, or to a section or
\* field of one.
resultsAfterCombine(results) == results

\* The merge of the stand-alone server, inline in its extractFormStructure
\* (unnamed/part_000:328-346), which runs only after the loop over two or
\* more batches: the title of the first result as it is, and the same two
\* loops over result.sections and section.fields.
standaloneCombine(batchResults_) ==
    [ formTitle |-> batchResults_[1].formTitle,
      sections  |-> combineSections(batchResults_, 1, 1, << >>) ]

\* ------------------------------------------------------------------------
\* State
\* ------------------------------------------------------------------------

VARIABLES
    apiKey,        \* process.env.OPENAI_API_KEY is set
    images,        \* the argument of extractFormStructure
    pc,            \* where the call of extractFormStructure stands
    i,             \* the loop variable of the batch loop
    batchResults,  \* the local list of batch results
    inFlight,      \* the model calls awaiting their response (indices of calls)
    calls,         \* every model call issued so far, in order of issue
    responses,     \* every response received so far, with what became of it
    mergeArgs,     \* the argument of every call of combineResults so far
    result,        \* what extractFormStructure returned
    error,         \* what extractFormStructure threw
    uuidDraws,     \* the number of uuids drawn for the structures returned so far
    fn,            \* the function under check, when one is checked on its own
    arg,           \* its argument
    ret,           \* its result
    db,            \* the training database: the rows of its three tables
    given          \* by form id, the extractions the store was handed

vars == << apiKey, images, pc, i, batchResults, inFlight, calls, responses,
           mergeArgs, result, error, uuidDraws, fn, arg, ret, db, given >>

storeVars == << db, given >>

pipelineVars == << apiKey, images, pc, i, batchResults, inFlight, calls,
                   responses, mergeArgs, result, error, uuidDraws >>

\* pipelineVars but for the count of uuids drawn
callVars == << apiKey, images, pc, i, batchResults, inFlight, calls,
               responses, mergeArgs, result, error >>

none == [ t |-> "none" ]

\* trainingService.js:16-51: the database with its three tables, empty
emptyDb ==
    [ training_forms |-> << >>, training_images |-> << >>,
      training_extractions |-> << >> ]
noError == [ message |-> "", code |-> "" ]

\* ------------------------------------------------------------------------
\* The model's responses
\* ------------------------------------------------------------------------

chars_checkbox == << "c", "h", "e", "c", "k", "b", "o", "x" >>
chars_Table == << "T", "a", "b", "l", "e" >>
chars_TextArea == << "T", "e", "x", "t", "A", "r", "e", "a" >>
chars_grid == << "g", "r", "i", "d" >>
chars_widget == << "w", "i", "d", "g", "e", "t" >>
chars_constructor ==
    << "c", "o", "n", "s", "t", "r", "u", "c", "t", "o", "r" >>

String(cs) == [ t |-> "string", cs |-> cs ]
Array(v) == [ t |-> "array", v |-> v ]
aNumber == [ t |-> "number", truthy |-> TRUE ]
null == [ t |-> "null" ]

\* A document that follows the example of SYSTEM_PROMPT
\* (openaiService.js:105-185): sections section_1, section_2, ... with
\* orders 1, 2, ..., and in every section fields field_1, field_2, ...
promptField(j) ==
    IF j % 2 = 1
    THEN [ t |-> "object", id |-> "field_" \o ToString(j),
           component |-> String(chars_checkbox), label |-> "Coverage",
           required |-> TRUE, order |-> j,
           options |-> Array(<< "Yes", "No" >>) ]
    ELSE [ t |-> "object", id |-> "field_" \o ToString(j),
           component |-> String(chars_Table), label |-> "Claims",
           order |-> j, columns |-> Array(<< "Year" >>), rowCount |-> 2 ]

promptSection(k, nf) ==
    [ t |-> "object", id |-> "section_" \o ToString(k), title |-> "COVERAGE",
      order |-> k, fields |-> Array([ j \in 1..nf |-> promptField(j) ]) ]

\* A document that leaves out every id, title, label and order
bareField(j) ==
    IF j % 2 = 1 THEN [ t |-> "object" ]
    ELSE [ t |-> "object", type |-> String(chars_TextArea),
           placeholder |-> "Describe" ]

bareSection(k, nf) ==
    [ t |-> "object", fields |-> Array([ j \in 1..nf |-> bareField(j) ]) ]

\* A document whose ids and orders are the model's own invention: one id
\* for every section, one for every field, and an order that is not the
\* position
oddField(j) ==
    IF j % 2 = 1
    THEN [ t |-> "object", id |-> "f", type |-> String(chars_grid),
           rows |-> Array(<< "r1", "r2", "r3" >>), order |-> 7 ]
    ELSE [ t |-> "object", id |-> "f", component |-> String(chars_widget),
           label |-> "Other", order |-> 7 ]

oddSection(k, nf) ==
    [ t |-> "object", id |-> "s", title |-> "GENERAL", order |-> 9,
      fields |-> Array([ j \in 1..nf |-> oddField(j) ]) ]

Document(mode, ns, nf) ==
    CASE mode = "prompt" ->
           [ t |-> "object", formTitle |-> "Application",
             sections |-> Array([ k \in 1..ns |-> promptSection(k, nf) ]) ]
      [] mode = "bare" ->
           [ t |-> "object",
             sections |-> Array([ k \in 1..ns |-> bareSection(k, nf) ]) ]
      [] mode = "odd" ->
           [ t |-> "object", formTitle |-> "Supplement",
             sections |-> Array([ k \in 1..ns |-> oddSection(k, nf) ]) ]

\* The shapes of the well-formed documents: for each of the three kinds
\* every number of sections with MaxFields fields each, and for the
\* prompt's example also every number of fields in MaxSections sections
DocumentShapes ==
    { << mode, ns, MaxFields >> :
        mode \in { "prompt", "bare", "odd" }, ns \in 0..MaxSections }
    \cup { << "prompt", MaxSections, nf >> : nf \in 0..MaxFields }

WellFormedDocuments == { Document(s[1], s[2], s[3]) : s \in DocumentShapes }

\* JSON objects that are no form structure
MalformedObjects ==
    << [ t |-> "object", formTitle |-> "Application", sections |-> aNumber ],
       [ t |-> "object", sections |-> Array(<< null >>) ],
       [ t |-> "object", sections |-> Array(<< aNumber >>) ],
       [ t |-> "object",
         sections |-> Array(<< [ t |-> "object", fields |-> aNumber ] >>) ],
       [ t |-> "object",
         sections |-> Array(<< [ t |-> "object", fields |-> Array(<< null >>) ] >>) ],
       [ t |-> "object",
         sections |-> Array(<< [ t |-> "object", fields |-> Array(<< aNumber >>) ] >>) ],
       [ t |-> "object",
         sections |-> Array(<< [ t |-> "object",
             fields |-> Array(<< [ t |-> "object", component |-> aNumber ] >>) ] >>) ],
       [ t |-> "object",
         sections |-> Array(<< [ t |-> "object",
             fields |-> Array(<< [ t |-> "object",
                 component |-> String(chars_constructor) ] >>) ] >>) ] >>

\* Values that parse as JSON and are no form structure
MalformedDocuments ==
    { null, aNumber }
    \cup { MalformedObjects[n] : n \in 1..Len(MalformedObjects) }

Documents == WellFormedDocuments \cup MalformedDocuments

\* ------------------------------------------------------------------------
\* Text: String.prototype.includes, trim, match
\* ------------------------------------------------------------------------

\* The least and the greatest member of a set of positions, 0 for none
first(S) == IF S = { } THEN 0 ELSE CHOOSE n \in S : \A m \in S : n <= m
last(S) == IF S = { } THEN 0 ELSE CHOOSE n \in S : \A m \in S : m <= n

\* The positions from `from` on at which pat occurs in cs
occurrences(cs, pat, from) ==
    { n \in from..(Len(cs) - Len(pat) + 1) : SubSeq(cs, n, n + Len(pat) - 1) = pat }

\* cs.includes(pat)
includes(cs, pat) == occurrences(cs, pat, 1) # { }

\* What \s matches and trim() removes, of the characters the texts use
whitespace == { " ", "\n" }

inkOf(cs) == { n \in 1..Len(cs) : cs[n] \notin whitespace }

\* cs.trim()
trim(cs) == IF inkOf(cs) = { } THEN << >> ELSE SubSeq(cs, first(inkOf(cs)), last(inkOf(cs)))

\* ------------------------------------------------------------------------
\* helpers.js: extractJsonFromText, safeJsonParse
\* ------------------------------------------------------------------------

\* The backquote character, which a TLA+ string cannot hold
backquote == "<backquote>"
fence == << backquote, backquote, backquote >>
chars_json == << "j", "s", "o", "n" >>

\* The positions at which /```(?:json)?\s*([\s\S]*?)```/ can match: an
\* opening fence with a closing fence somewhere after it. The optional tag
\* and the white space hold no backquote, so the closing fence is the same
\* whether or not they are consumed.
fenceOpenings(text) ==
    { n \in occurrences(text, fence, 1) : occurrences(text, fence, n + 3) # { } }

\* (?:json)? from position at on: the position after the tag if it is there
afterTag(text, at) ==
    IF at + 3 <= Len(text) /\ SubSeq(text, at, at + 3) = chars_json
    THEN at + 4 ELSE at

\* \s* from position at on: the position of the first character that is no
\* white space
afterSpace(text, at) == first({ n \in at..Len(text) : text[n] \notin whitespace })

\* ([\s\S]*?)``` from position at on, trimmed: the text up to the next fence
captured(text, at) == trim(SubSeq(text, at, first(occurrences(text, fence, at)) - 1))

\* /\{[\s\S]*\}/: from the first opening brace to the last closing brace
firstBrace(text) == first({ n \in 1..Len(text) : text[n] = "{" })
lastBrace(text) == last({ n \in 1..Len(text) : text[n] = "}" })

extractJsonFromText(text) ==
    IF fenceOpenings(text) # { }
    THEN captured(text, afterSpace(text, afterTag(text, first(fenceOpenings(text)) + 3)))
    ELSE IF firstBrace(text) # 0 /\ lastBrace(text) > firstBrace(text)
    THEN SubSeq(text, firstBrace(text), lastBrace(text))
    ELSE text

\* In a text the members of a JSON object, all that stands between its
\* braces, are written as one token: membersOf names the token of a
\* document, and jsonObjects lists every token with the object JSON.parse
\* builds from it.
membersOf(mode, ns, nf) == mode \o ":" \o ToString(ns) \o ":" \o ToString(nf)
malformedMembers(n) == "malformed:" \o ToString(n)

jsonObjects ==
    { << membersOf(s[1], s[2], s[3]), Document(s[1], s[2], s[3]) >> :
        s \in DocumentShapes }
    \cup { << malformedMembers(n), MalformedObjects[n] >> :
             n \in 1..Len(MalformedObjects) }

chars_null == << "n", "u", "l", "l" >>
chars_5 == << "5" >>

\* JSON.parse of a text without the white space around it: an object, the
\* literal null, a number; every other text is a SyntaxError.
parsed(json) ==
    IF Len(json) = 3 /\ json[1] = "{" /\ json[3] = "}"
       /\ \E e \in jsonObjects : e[1] = json[2]
    THEN [ success |-> TRUE,
           data |-> (CHOOSE e \in jsonObjects : e[1] = json[2])[2] ]
    ELSE IF json = chars_null THEN [ success |-> TRUE, data |-> null ]
    ELSE IF json = chars_5 THEN [ success |-> TRUE, data |-> aNumber ]
    ELSE [ success |-> FALSE, error |-> "SyntaxError" ]

\* helpers.js:81-87. JSON.parse skips the white space around the value.
safeJsonParse(string) == parsed(trim(string))

\* ------------------------------------------------------------------------
\* The model's responses
\* ------------------------------------------------------------------------

objectText(members) == << "{", members, "}" >>

chars_Im_sorry == << "i", "'", "m", " ", "s", "o", "r", "r", "y" >>
chars_I_cannot == << "i", " ", "c", "a", "n", "n", "o", "t" >>
chars_I_cant == << "i", " ", "c", "a", "n", "'", "t" >>

\* The texts of the spec's own examples and of the cases around them
text_fenced ==
    << "H", "e", "r", "e", ":", "\n" >> \o fence \o chars_json \o << "\n" >>
    \o objectText(membersOf("prompt", MaxSections, 1)) \o << "\n" >> \o fence
text_fencedUntagged ==
    fence \o << "\n" >> \o objectText(membersOf("odd", 1, MaxFields))
    \o << "\n" >> \o fence \o << "\n", "O", "K" >>
text_embedded ==
    << "F", "o", "r", "m", ":", " " >>
    \o objectText(membersOf("bare", 1, MaxFields)) \o << " ", "\n" >>
text_twoObjects ==
    << "A", ":", " " >>
    \o objectText(membersOf("prompt", MaxSections, 1)) \o << "\n" >>
    \o objectText(membersOf("prompt", MaxSections, 1))
text_prose == << "T", "h", "e", " ", "f", "o", "r", "m" >>
text_unclosed == << "{", membersOf("prompt", MaxSections, 1) >>
text_sorry ==
    << "I", "'", "m", " ", "s", "o", "r", "r", "y", ",", " ",
       "I", " ", "c", "a", "n", "n", "o", "t", "." >>
text_CANNOT == << "I", " ", "C", "A", "N", "N", "O", "T", " ", "r", "e", "a", "d" >>
text_cant == << "S", "o", " ", "I", " ", "c", "a", "n", "'", "t", "." >>
text_cantThenObject ==
    << "i", " ", "C", "a", "n", "'", "T", " ", "s", "e", "e", " ", "p", "2", "\n" >>
    \o objectText(membersOf("prompt", MaxSections, 1))

NoJsonTexts == { text_twoObjects, text_prose, text_unclosed }

RefusalTexts == { text_sorry, text_CANNOT, text_cant, text_cantThenObject }

JsonTexts ==
    { objectText(e[1]) : e \in jsonObjects }
    \cup { chars_null, chars_5, text_fenced, text_fencedUntagged, text_embedded }

Texts == JsonTexts \cup NoJsonTexts \cup RefusalTexts

\* The response openai.chat.completions.create resolves with, of which the
\* code reads choices[0]?.message?.content
completion(choices) == [ kind |-> "completion", choices |-> choices ]

choice(content) ==
    [ t |-> "object", message |-> [ t |-> "object", content |-> content ] ]

\* Responses without text content: no choice, a choice without a message,
\* a message whose content is null, a message whose content is ""
EmptyResponses ==
    { completion(<< >>),
      completion(<< [ t |-> "object" ] >>),
      completion(<< choice(null) >>),
      completion(<< choice(String(<< >>)) >>) }

\* What openai.chat.completions.create can come back with: a rejection
\* with an error code, or a response
Responses ==
    { [ kind |-> "error", code |-> c ] :
        c \in { "insufficient_quota", "invalid_api_key", "timeout" } }
    \cup EmptyResponses
    \cup { completion(<< choice(String(text)) >>) : text \in Texts }

\* ------------------------------------------------------------------------
\* processImageBatch, from the response on
\* ------------------------------------------------------------------------

\* The thrown Error objects, by message; code is the property the catch
\* block of extractFormStructure reads.
Err(message) == [ message |-> message, code |-> "" ]

ConfigurationError == Err("OPENAI_API_KEY is not configured")
EmptyInputError == Err("No images provided for analysis")
EmptyResponseError == Err("Empty response from GPT-4o")
RefusalError ==
    Err("The AI could not process this document. The content may be unclear or restricted. Please try with a clearer image.")
MalformedOutputError == Err("Invalid JSON response from AI. Please try again.")
UpstreamQuotaError == Err("OpenAI API quota exceeded. Please check your billing.")
UpstreamAuthError == Err("Invalid OpenAI API key")
TypeError == Err("TypeError")

\* The error openai.chat.completions.create rejects with
UpstreamError(code) == [ message |-> "upstream error", code |-> code ]

\* list[n], undefined past the end
elementAt(list, n) == IF n < Len(list) THEN list[n + 1] ELSE undefined

\* value?.name
optional(value, name) ==
    IF value.t \in { "undefined", "null" } THEN undefined
    ELSE prop(value, name, undefined)

\* response.choices[0]?.message?.content
responseContent(response) ==
    optional(optional(elementAt(response.choices, 0), "message"), "content")

\* A variant of refusalPhrases without the third test
refusalPhrasesWithoutCant == { chars_Im_sorry, chars_I_cannot }

\* The three tests of lines 279-281 on the lower-cased text
refusalPhrases == { chars_Im_sorry, chars_I_cannot, chars_I_cant }

isRefusal(lowered) == \E phrase \in refusalPhrases : includes(lowered, phrase)

\* What processImageBatch returns or throws once the model call has come
\* back: [ok |-> TRUE, value |-> the structure] or [ok |-> FALSE, err |->
\* the Error], together with what it has written with console.error and
\* the helpers it has called on the text, in order. draws is the number of
\* uuids drawn before.
threw(err, console, called) ==
    [ ok |-> FALSE, err |-> err, console |-> console, called |-> called ]

normalizeOutcome(n, called) ==
    IF n.ok
    THEN [ ok |-> TRUE, value |-> n.value, console |-> << >>, called |-> called ]
    ELSE threw(TypeError, << >>, called)

\* Lines 290-295, parseResult being what safeJsonParse returned
processParseResult(responseContent_, parseResult, draws) ==
    IF ~parseResult.success
    THEN threw(MalformedOutputError, << responseContent_ >>,
               << "extractJsonFromText", "safeJsonParse" >>)
    ELSE normalizeOutcome(normalizeFormStructure(parseResult.data, draws),
             << "extractJsonFromText", "safeJsonParse", "normalizeFormStructure" >>)

\* A variant of processContent that tests for a refusal first and for an
\* empty content after: toLowerCase is called on the content as it came,
\* which throws when the content is no string
processContentRefusalFirst(content, draws) ==
    IF content.t # "string" THEN threw(TypeError, << >>, << >>)
    ELSE IF isRefusal(toLowerCase(content.cs))
    THEN threw(RefusalError, << content.cs >>, << >>)
    ELSE IF isFalsy(content) THEN threw(EmptyResponseError, << >>, << >>)
    ELSE processParseResult(content.cs,
             safeJsonParse(extractJsonFromText(content.cs)), draws)

\* A variant of processContent that hands the extracted payload on where
\* the raw text is due: console.error('Failed to parse ...', jsonString)
processContentLogsPayload(content, draws) ==
    IF isFalsy(content) THEN threw(EmptyResponseError, << >>, << >>)
    ELSE IF isRefusal(toLowerCase(content.cs))
    THEN threw(RefusalError, << content.cs >>, << >>)
    ELSE processParseResult(extractJsonFromText(content.cs),
             safeJsonParse(extractJsonFromText(content.cs)), draws)

\* Lines 274-288, content being response.choices[0]?.message?.content
processContent(content, draws) ==
    IF isFalsy(content) THEN threw(EmptyResponseError, << >>, << >>)
    ELSE IF isRefusal(toLowerCase(content.cs))
    THEN threw(RefusalError, << content.cs >>, << >>)
    ELSE processParseResult(content.cs,
             safeJsonParse(extractJsonFromText(content.cs)), draws)

processImageBatch(resp, draws) ==
    IF resp.kind = "error"
    THEN threw(UpstreamError(resp.code), << >>, << >>)
    ELSE processContent(responseContent(resp), draws)

\* The value JSON.parse returned for a response processImageBatch returned
\* a structure for
parsedData(resp) ==
    safeJsonParse(extractJsonFromText(responseContent(resp).cs)).data

\* ------------------------------------------------------------------------
\* processImageBatch of the stand-alone server (unnamed/part_000:223-267)
\* ------------------------------------------------------------------------

\* The stand-alone server carries its own copy of the pipeline. Its
\* processImageBatch handles the response as the service's does, with its
\* own refusal test and messages, up to the call of its own
\* normalizeFormStructure.
StandaloneRefusalError == Err("The AI could not process this document.")
StandaloneMalformedOutputError == Err("Invalid JSON response from AI.")

\* The two tests of part_000:253-254 on the lower-cased text
standaloneRefusalPhrases == { chars_Im_sorry, chars_I_cannot }

standaloneIsRefusal(lowered) ==
    \E phrase \in standaloneRefusalPhrases : includes(lowered, phrase)

\* part_000:261-266, parseResult being what safeJsonParse returned. When the
\* text parses, value is the parsed data, which the code hands on to
\* normalizeFormStructure.
standaloneProcessParseResult(responseContent_, parseResult) ==
    IF ~parseResult.success
    THEN threw(StandaloneMalformedOutputError, << responseContent_ >>,
               << "extractJsonFromText", "safeJsonParse" >>)
    ELSE [ ok |-> TRUE, value |-> parseResult.data, console |-> << >>,
           called |-> << "extractJsonFromText", "safeJsonParse",
                         "normalizeFormStructure" >> ]

\* part_000:250-259
standaloneProcessContent(content) ==
    IF isFalsy(content) THEN threw(EmptyResponseError, << >>, << >>)
    ELSE IF standaloneIsRefusal(toLowerCase(content.cs))
    THEN threw(StandaloneRefusalError, << >>, << >>)
    ELSE standaloneProcessParseResult(content.cs,
             safeJsonParse(extractJsonFromText(content.cs)))

standaloneProcessImageBatch(resp) ==
    IF resp.kind = "error"
    THEN threw(UpstreamError(resp.code), << >>, << >>)
    ELSE standaloneProcessContent(responseContent(resp))

\* A variant of catchError that reports every error it has no message for
\* as a failure to read the response
catchErrorMasks(e) ==
    IF e.code = "insufficient_quota" THEN UpstreamQuotaError
    ELSE IF e.code = "invalid_api_key" THEN UpstreamAuthError
    ELSE MalformedOutputError

\* The catch block of extractFormStructure: the Error it throws for the
\* caught one
catchError(e) ==
    IF e.code = "insufficient_quota" THEN UpstreamQuotaError
    ELSE IF e.code = "invalid_api_key" THEN UpstreamAuthError
    ELSE e

\* ------------------------------------------------------------------------
\* extractFormStructure
\* ------------------------------------------------------------------------

Min(a, b) == IF a < b THEN a ELSE b

\* A variant of batchSlice whose window ends one page early:
\* images.slice(i, i + MAX_PAGES_PER_BATCH - 1)
batchSliceShort(imgs, at) ==
    SubSeq(imgs, at + 1, Min(at + MAX_PAGES_PER_BATCH - 1, Len(imgs)))

\* images.slice(i, i + MAX_PAGES_PER_BATCH)
batchSlice(imgs, at) ==
    SubSeq(imgs, at + 1, Min(at + MAX_PAGES_PER_BATCH, Len(imgs)))

\* A variant of nextIndex that steps by one page: i++
nextIndexByOne(at) == at + 1

\* The loop's step, i += MAX_PAGES_PER_BATCH
nextIndex(at) == at + MAX_PAGES_PER_BATCH

\* The model call processImageBatch(batch, startPage, totalPages) issues
modelCall(batch, startPage, totalPages) ==
    [ startPage |-> startPage, totalPages |-> totalPages, pages |-> batch ]

\* A variant of callsOnEntry that issues the calls of all windows at once,
\* as Promise.all over the batches would
callsOnEntryAllAtOnce(imgs) ==
    [ n \in 1..((Len(imgs) + MAX_PAGES_PER_BATCH - 1) \div MAX_PAGES_PER_BATCH) |->
        modelCall(batchSlice(imgs, (n - 1) * MAX_PAGES_PER_BATCH),
                  (n - 1) * MAX_PAGES_PER_BATCH + 1, Len(imgs)) ]

\* The model calls issued, before the first await, by a call with a
\* non-empty imgs: the whole document when it fits one batch, else the
\* first window of the loop
callsOnEntry(imgs) ==
    IF Len(imgs) <= MAX_PAGES_PER_BATCH
    THEN << modelCall(imgs, 1, Len(imgs)) >>
    ELSE << modelCall(batchSlice(imgs, 0), 0 + 1, Len(imgs)) >>

\* A variant of isEmptyInput that tests for a missing list only: !images
isEmptyInputMissingOnly(imgs) == isFalsy(imgs)

\* !images || images.length === 0
isEmptyInput(imgs) == isFalsy(imgs) \/ Len(imgs.v) = 0

Init ==
    /\ apiKey \in BOOLEAN
    /\ images \in { undefined }
                  \cup { Array([ p \in 1..len |-> p ]) : len \in 0..MaxPages }
    /\ pc = "idle"
    /\ i = 0
    /\ batchResults = << >>
    /\ inFlight = { }
    /\ calls = << >>
    /\ responses = << >>
    /\ mergeArgs = << >>
    /\ result = none
    /\ error = noError
    /\ uuidDraws = 0
    /\ db = emptyDb
    /\ given = << >>
    /\ fn = "extractFormStructure"
    /\ arg = none
    /\ ret = none

\* A variant of Call that tests the input before the credential: the two
\* guards of lines 196-202 in the other order
CallChecksInputFirst ==
    /\ pc = "idle"
    /\ IF isEmptyInput(images)
       THEN /\ pc' = "failed"
            /\ error' = EmptyInputError
            /\ UNCHANGED << calls, inFlight >>
       ELSE IF ~apiKey
       THEN /\ pc' = "failed"
            /\ error' = ConfigurationError
            /\ UNCHANGED << calls, inFlight >>
       ELSE /\ pc' = IF Len(images.v) <= MAX_PAGES_PER_BATCH
                     THEN "awaitSingle" ELSE "awaitBatch"
            /\ calls' = callsOnEntry(images.v)
            /\ inFlight' = 1..Len(calls')
            /\ UNCHANGED error
    /\ UNCHANGED << apiKey, images, i, batchResults, responses, mergeArgs,
                    result, uuidDraws, fn, arg, ret,
                 db, given >>

\* extractFormStructure(images) up to its first await or throw
Call ==
    /\ pc = "idle"
    /\ IF ~apiKey
       THEN /\ pc' = "failed"
            /\ error' = ConfigurationError
            /\ UNCHANGED << calls, inFlight >>
       ELSE IF isEmptyInput(images)
       THEN /\ pc' = "failed"
            /\ error' = EmptyInputError
            /\ UNCHANGED << calls, inFlight >>
       ELSE /\ pc' = IF Len(images.v) <= MAX_PAGES_PER_BATCH
                     THEN "awaitSingle" ELSE "awaitBatch"
            /\ calls' = callsOnEntry(images.v)
            /\ inFlight' = 1..Len(calls')
            /\ UNCHANGED error
    /\ UNCHANGED << apiKey, images, i, batchResults, responses, mergeArgs,
                    result, uuidDraws, fn, arg, ret,
                 db, given >>

\* The entry of `responses` for the response resp to call c
received(c, resp, out) == [ call |-> c, response |-> resp, out |-> out ]

\* A variant of BatchFails that recovers: the catch block returns what the
\* batches before the failed one gave.
BatchFailsReturnsPartial(c, resp) ==
    \E out \in { processImageBatch(resp, uuidDraws) } :
    /\ ~out.ok
    /\ pc' = "done"
    /\ result' = combineResults(batchResults)
    /\ inFlight' = inFlight \ { c }
    /\ responses' = Append(responses, received(c, resp, out))
    /\ UNCHANGED << apiKey, images, i, batchResults, calls, mergeArgs, error,
                    uuidDraws, fn, arg, ret,
                 db, given >>

\* A batch fails: the model call rejects, or processImageBatch throws on
\* its response; the catch block rethrows and extractFormStructure ends.
BatchFails(c, resp) ==
    \E out \in { processImageBatch(resp, uuidDraws) } :
    /\ ~out.ok
    /\ pc' = "failed"
    /\ error' = catchError(out.err)
    /\ inFlight' = inFlight \ { c }
    /\ responses' = Append(responses, received(c, resp, out))
    /\ UNCHANGED << apiKey, images, i, batchResults, calls, mergeArgs, result,
                    uuidDraws, fn, arg, ret,
                 db, given >>

\* The only batch of a small document succeeds: its structure is returned
\* as it is.
SingleBatchReturns(c, resp) ==
    \E out \in { processImageBatch(resp, uuidDraws) } :
    /\ pc = "awaitSingle"
    /\ out.ok
    /\ pc' = "done"
    /\ result' = out.value
    /\ inFlight' = inFlight \ { c }
    /\ responses' = Append(responses, received(c, resp, out))
    /\ uuidDraws' = uuidDraws + drawsIn(parsedData(resp))
    /\ UNCHANGED << apiKey, images, i, batchResults, calls, mergeArgs, error,
                    fn, arg, ret,
                 db, given >>

\* A batch of the loop succeeds and pages are left: the result is pushed
\* and the next window's call is issued.
BatchContinues(c, resp) ==
    \E out \in { processImageBatch(resp, uuidDraws) } :
    /\ pc = "awaitBatch"
    /\ out.ok
    /\ nextIndex(i) < Len(images.v)
    /\ batchResults' = Append(batchResults, out.value)
    /\ i' = nextIndex(i)
    /\ calls' = Append(calls, modelCall(batchSlice(images.v, i'), i' + 1,
                                        Len(images.v)))
    /\ inFlight' = (inFlight \ { c }) \cup { Len(calls') }
    /\ responses' = Append(responses, received(c, resp, out))
    /\ uuidDraws' = uuidDraws + drawsIn(parsedData(resp))
    /\ UNCHANGED << apiKey, images, pc, mergeArgs, result, error, fn, arg, ret,
                 db, given >>

\* The last batch of the loop succeeds: the results are combined and
\* returned.
LastBatchMerges(c, resp) ==
    \E out \in { processImageBatch(resp, uuidDraws) } :
    /\ pc = "awaitBatch"
    /\ out.ok
    /\ ~(nextIndex(i) < Len(images.v))
    /\ batchResults' = resultsAfterCombine(Append(batchResults, out.value))
    /\ i' = nextIndex(i)
    /\ mergeArgs' = Append(mergeArgs, Append(batchResults, out.value))
    /\ result' = combineResults(Append(batchResults, out.value))
    /\ pc' = "done"
    /\ inFlight' = inFlight \ { c }
    /\ responses' = Append(responses, received(c, resp, out))
    /\ uuidDraws' = uuidDraws + drawsIn(parsedData(resp))
    /\ UNCHANGED << apiKey, images, calls, error, fn, arg, ret,
                 db, given >>

Fails ==
    /\ pc \in { "awaitSingle", "awaitBatch" }
    /\ \E c \in inFlight, resp \in Responses : BatchFails(c, resp)

Returns == \E c \in inFlight, resp \in Responses : SingleBatchReturns(c, resp)

Continues == \E c \in inFlight, resp \in Responses : BatchContinues(c, resp)

Merges == \E c \in inFlight, resp \in Responses : LastBatchMerges(c, resp)

Next == Call \/ Fails \/ Returns \/ Continues \/ Merges

Spec == Init /\ [][Next]_vars

\* ------------------------------------------------------------------------
\* The functions checked on their own
\* ------------------------------------------------------------------------

\* The keys of typeMap, spelled out
synonymChars ==
    {
      << "s", "i", "g", "n", "a", "t", "u", "r", "e" >>,
      << "m", "u", "l", "t", "i", "-", "s", "e", "l", "e", "c", "t" >>,
      << "m", "u", "l", "t", "i", "s", "e", "l", "e", "c", "t" >>,
      << "c", "h", "e", "c", "k", "b", "o", "x" >>,
      << "c", "h", "e", "c", "k", "b", "o", "x", "e", "s" >>,
      << "f", "i", "l", "e", " ", "u", "p", "l", "o", "a", "d" >>,
      << "f", "i", "l", "e", "u", "p", "l", "o", "a", "d" >>,
      << "f", "i", "l", "e" >>,
      << "a", "t", "t", "a", "c", "h", "m", "e", "n", "t" >>,
      << "s", "h", "o", "r", "t", " ", "i", "n", "p", "u", "t" >>,
      << "s", "h", "o", "r", "t", "i", "n", "p", "u", "t" >>,
      << "t", "e", "x", "t" >>,
      << "t", "e", "x", "t", "f", "i", "e", "l", "d" >>,
      << "i", "n", "p", "u", "t" >>,
      << "s", "e", "c", "t", "i", "o", "n", "s" >>,
      << "s", "e", "c", "t", "i", "o", "n" >>,
      << "d", "r", "o", "p", "d", "o", "w", "n" >>,
      << "s", "e", "l", "e", "c", "t" >>,
      << "r", "a", "d", "i", "o", " ", "s", "e", "l", "e", "c", "t" >>,
      << "r", "a", "d", "i", "o", "s", "e", "l", "e", "c", "t" >>,
      << "r", "a", "d", "i", "o" >>,
      << "t", "a", "b", "l", "e" >>,
      << "g", "r", "i", "d" >>,
      << "t", "i", "t", "l", "e" >>,
      << "h", "e", "a", "d", "i", "n", "g" >>,
      << "h", "e", "a", "d", "e", "r" >>,
      << "l", "o", "n", "g", " ", "i", "n", "p", "u", "t" >>,
      << "l", "o", "n", "g", "i", "n", "p", "u", "t" >>,
      << "t", "e", "x", "t", "a", "r", "e", "a" >>,
      << "m", "u", "l", "t", "i", "l", "i", "n", "e" >>,
      << "p", "a", "r", "a", "g", "r", "a", "p", "h" >>,
      << "i", "n", "s", "t", "r", "u", "c", "t", "i", "o", "n" >>,
      << "i", "n", "s", "t", "r", "u", "c", "t", "i", "o", "n", "s" >>,
      << "g", "u", "i", "d", "a", "n", "c", "e" >>,
      << "n", "o", "t", "e" >>,
      << "i", "n", "f", "o" >> }

\* The ten canonical names, spelled out
canonicalChars ==
    {
      << "S", "i", "g", "n", "a", "t", "u", "r", "e" >>,
      << "M", "u", "l", "t", "i", "-", "S", "e", "l", "e", "c", "t" >>,
      << "F", "i", "l", "e", " ", "U", "p", "l", "o", "a", "d" >>,
      << "S", "h", "o", "r", "t", " ", "I", "n", "p", "u", "t" >>,
      << "S", "e", "c", "t", "i", "o", "n", "s" >>,
      << "D", "r", "o", "p", "d", "o", "w", "n" >>,
      << "R", "a", "d", "i", "o", " ", "S", "e", "l", "e", "c", "t" >>,
      << "T", "a", "b", "l", "e" >>,
      << "T", "i", "t", "l", "e" >>,
      << "L", "o", "n", "g", " ", "I", "n", "p", "u", "t" >> }

lowerToUpper ==
    [ c \in { lowerCase[n] : n \in 1..26 } |->
        upperCase[CHOOSE n \in 1..26 : lowerCase[n] = c] ]

upperCased(cs) ==
    [ n \in 1..Len(cs) |->
        IF cs[n] \in DOMAIN lowerToUpper THEN lowerToUpper[cs[n]] ELSE cs[n] ]

capitalised(cs) ==
    [ n \in 1..Len(cs) |->
        IF n = 1 /\ cs[n] \in DOMAIN lowerToUpper THEN lowerToUpper[cs[n]]
        ELSE cs[n] ]

\* The arguments of normalizeComponentType: what JSON.parse can put in
\* field.component or field.type, and undefined for a missing key. The
\* strings are every synonym in lower case, in upper case and capitalised,
\* the canonical names, the two inherited property names, a name that is
\* in no table, and the empty string.
TypeInputs ==
    { undefined, null, emptyArray, [ t |-> "object" ] }
    \cup { [ t |-> k, truthy |-> b ] : k \in { "number", "boolean" }, b \in BOOLEAN }
    \cup { String(cs) : cs \in synonymChars }
    \cup { String(upperCased(cs)) : cs \in synonymChars }
    \cup { String(capitalised(cs)) : cs \in synonymChars }
    \cup { String(cs) : cs \in canonicalChars }
    \cup { String(chars_constructor), String(capitalised(chars_constructor)),
           String(<< "_", "_", "p", "r", "o", "t", "o", "_", "_" >>),
           String(chars_widget), String(chars_TextArea), String(<< >>) }

\* Structures normalizeFormStructure returns, as batch results
BatchResultSamples ==
    { normalizeFormStructure(d, 0).value :
        d \in { Document("prompt", 1, 1), Document("prompt", 1, 2),
                Document("prompt", 2, 1), Document("bare", 0, 0),
                Document("bare", 2, 2), Document("odd", 1, 1),
                Document("odd", 2, 2), Document("odd", 0, 0) } }

RECURSIVE ListsUpTo(_, _)
ListsUpTo(S, n) ==
    IF n = 0 THEN { << >> }
    ELSE ListsUpTo(S, n - 1)
         \cup { Append(l, x) : l \in { m \in ListsUpTo(S, n - 1) : Len(m) = n - 1 },
                               x \in S }

\* The arguments of combineResults: every list of at most MaxResults
\* batch results
ResultLists == ListsUpTo(BatchResultSamples, MaxResults)

\* The responses handed to the two copies of processImageBatch: which
\* copy handles the response, and the response
ResponseHandlings ==
    [ copy : { "service", "standalone" }, response : Responses ]

\* The object with the one key name for every value, and the object
\* without the key
optionally(name, values) == { << >> } \cup { name :> v : v \in values }

chars_radio == << "r", "a", "d", "i", "o" >>
chars_Dropdown == << "D", "r", "o", "p", "d", "o", "w", "n" >>

\* The fields handed to normalizeField: an element of a parsed fields list
\* with any of the kinds of component and, whatever the kind, with or
\* without options, columns, rowCount and rows, each as the list or number
\* the prompt asks for or as another JSON value; with and without an id.
FieldInputs ==
    { [ t |-> "object" ] @@ id @@ component @@ options @@ columns @@ rowCount @@ rows :
        id \in optionally("id", { "f" }),
        component \in optionally("component",
                         { String(chars_checkbox), String(chars_radio),
                           String(chars_Dropdown), String(chars_Table),
                           String(chars_widget) }),
        options \in optionally("options",
                       { Array(<< "Yes", "No" >>), String(<< "Y" >>) }),
        columns \in optionally("columns", { Array(<< "Year" >>), aNumber }),
        rowCount \in optionally("rowCount", { 2 }),
        rows \in optionally("rows", { Array(<< "r1", "r2", "r3" >>),
                                      [ t |-> "object" ] }) }

\* The arguments of normalizeField: a field and its 0-based position
FieldCalls == [ field : FieldInputs, fieldIndex : 0..(MaxFields - 1) ]

\* A fenced object preceded by prose whose fence carries the tag in upper
\* case
text_fencedUpperTag ==
    << "S", "u", "r", "e", ":", "\n" >> \o fence \o << "J", "S", "O", "N", "\n" >>
    \o objectText(membersOf("prompt", MaxSections, 1)) \o << "\n" >> \o fence

\* A fence that is never closed, before an object
text_unclosedFence ==
    fence \o chars_json \o << "\n" >>
    \o objectText(membersOf("prompt", MaxSections, 1))

\* A closing brace before the only opening one
text_braceOutOfOrder == << "}", " ", "{" >>

\* The arguments of extractJsonFromText
ExtractInputs ==
    Texts \cup { text_fencedUpperTag, text_unclosedFence, text_braceOutOfOrder }

InitFunctions ==
    /\ \/ fn = "normalizeComponentType" /\ arg \in TypeInputs
       \/ fn = "normalizeField" /\ arg \in FieldCalls
       \/ fn = "extractJsonFromText" /\ arg \in ExtractInputs
       \/ fn = "combineResults" /\ arg \in ResultLists
       \/ fn = "processImageBatch" /\ arg \in ResponseHandlings
       \/ fn = "standaloneCombine"
          /\ arg \in { l \in ResultLists : Len(l) >= 2 }
    /\ ret = none
    /\ apiKey = TRUE
    /\ images = undefined
    /\ pc = "off"
    /\ i = 0
    /\ batchResults = << >>
    /\ inFlight = { }
    /\ calls = << >>
    /\ responses = << >>
    /\ mergeArgs = << >>
    /\ result = none
    /\ error = noError
    /\ uuidDraws = 0
    /\ db = emptyDb
    /\ given = << >>

ApplyNormalizeComponentType ==
    /\ fn = "normalizeComponentType"
    /\ ret = none
    /\ ret' = normalizeComponentType(arg)
    /\ UNCHANGED << fn, arg >>
    /\ UNCHANGED pipelineVars
    /\ UNCHANGED storeVars

ApplyCombineResults ==
    /\ fn = "combineResults"
    /\ ret = none
    /\ ret' = [ ok |-> TRUE, value |-> combineResults(arg) ]
    /\ arg' = resultsAfterCombine(arg)
    /\ UNCHANGED fn
    /\ UNCHANGED pipelineVars
    /\ UNCHANGED storeVars

\* What normalizeComponentType returned, as a value handed to it again: a
\* canonical name is a string; the inherited property it can return
\* instead is a function or an object
returnedType(value) ==
    IF value \in validTypes
    THEN String(CHOOSE cs \in canonicalChars : str(cs) = value)
    ELSE [ t |-> "object" ]

\* normalizeComponentType(normalizeComponentType(x)): the second call,
\* which runs when the first has returned
ApplyNormalizeComponentTypeAgain ==
    /\ fn = "normalizeComponentType"
    /\ ret # none
    /\ ret.ok
    /\ "again" \notin DOMAIN ret
    /\ ret' = [ ok |-> TRUE, value |-> ret.value,
                again |-> normalizeComponentType(returnedType(ret.value)) ]
    /\ UNCHANGED << fn, arg >>
    /\ UNCHANGED pipelineVars
    /\ UNCHANGED storeVars

\* normalizeField(field, fieldIndex); the uuid is drawn when the field has
\* no id and normalizeComponentType has returned
ApplyNormalizeField ==
    /\ fn = "normalizeField"
    /\ ret = none
    /\ \E out \in { normalizeField(arg.field, arg.fieldIndex, uuidDraws + 1) } :
         /\ ret' = out
         /\ uuidDraws' = IF out.ok /\ prop(arg.field, "id", "") = ""
                         THEN uuidDraws + 1 ELSE uuidDraws
    /\ UNCHANGED << fn, arg >>
    /\ UNCHANGED callVars
    /\ UNCHANGED storeVars

\* normalizeField called a second time with the same arguments, after the
\* first call has returned
ApplyNormalizeFieldAgain ==
    /\ fn = "normalizeField"
    /\ ret # none
    /\ ret.ok
    /\ "again" \notin DOMAIN ret
    /\ \E out \in { normalizeField(arg.field, arg.fieldIndex, uuidDraws + 1) } :
         /\ ret' = [ ok |-> TRUE, value |-> ret.value, again |-> out ]
         /\ uuidDraws' = IF out.ok /\ prop(arg.field, "id", "") = ""
                         THEN uuidDraws + 1 ELSE uuidDraws
    /\ UNCHANGED << fn, arg >>
    /\ UNCHANGED callVars
    /\ UNCHANGED storeVars

ApplyExtractJsonFromText ==
    /\ fn = "extractJsonFromText"
    /\ ret = none
    /\ ret' = [ ok |-> TRUE, value |-> extractJsonFromText(arg) ]
    /\ UNCHANGED << fn, arg >>
    /\ UNCHANGED pipelineVars
    /\ UNCHANGED storeVars

\* processImageBatch from the response on, without a uuid drawn before
ApplyProcessImageBatch ==
    /\ fn = "processImageBatch"
    /\ ret = none
    /\ ret' = IF arg.copy = "service" THEN processImageBatch(arg.response, 0)
              ELSE standaloneProcessImageBatch(arg.response)
    /\ UNCHANGED << fn, arg >>
    /\ UNCHANGED pipelineVars
    /\ UNCHANGED storeVars

ApplyStandaloneCombine ==
    /\ fn = "standaloneCombine"
    /\ ret = none
    /\ ret' = [ ok |-> TRUE, value |-> standaloneCombine(arg) ]
    /\ UNCHANGED << fn, arg >>
    /\ UNCHANGED pipelineVars
    /\ UNCHANGED storeVars

NextFunctions ==
    \/ ApplyNormalizeComponentType
    \/ ApplyNormalizeComponentTypeAgain
    \/ ApplyNormalizeField
    \/ ApplyNormalizeFieldAgain
    \/ ApplyExtractJsonFromText
    \/ ApplyCombineResults
    \/ ApplyProcessImageBatch
    \/ ApplyStandaloneCombine

FunctionSpec == InitFunctions /\ [][NextFunctions]_vars

\* ------------------------------------------------------------------------
\* trainingService.js: the training store
\* ------------------------------------------------------------------------

\* SQL NULL, in a column and in what a query returns for it
NULL == [ sql |-> "NULL" ]

number(n) == [ t |-> "number", n |-> n ]

\* JSON.stringify leaves out every property whose value is undefined. Of
\* the properties of a normalized field only rowCount can be undefined.
stringifiedField(field) ==
    [ key \in { k \in DOMAIN field :
                  ~(k = "rowCount" /\ field[k].t = "undefined") } |-> field[key] ]

stringifiedSection(section) ==
    [ section EXCEPT
        !.fields = [ j \in 1..Len(@) |-> stringifiedField(@[j]) ] ]

\* A variant of stringify that writes only the properties every field has
stringifyRequiredOnly(value) ==
    [ json |->
        [ value EXCEPT
            !.sections =
                [ k \in 1..Len(@) |->
                    [ @[k] EXCEPT
                        !.fields =
                            [ j \in 1..Len(@) |->
                                [ key \in DOMAIN @[j]
                                          \ { "options", "columns", "rowCount" }
                                  |-> @[j][key] ] ] ] ] ] ]

\* JSON.stringify(value) for a form structure. A JSON text is written as
\* [json |-> the value it denotes]: it has the properties the text spells
\* out, in the nesting the text gives them.
stringify(value) ==
    [ json |->
        [ value EXCEPT
            !.sections = [ k \in 1..Len(@) |-> stringifiedSection(@[k]) ] ] ]

\* JSON.parse(text) of a text JSON.stringify wrote
parse(text) == text.json

\* A table is the list of its rows in the order of their insertion. The
\* rows of a table that belong to a form:
formRows(database, formId) ==
    SelectSeq(database.training_forms, LAMBDA row : row.id = formId)
imageRows(database, formId) ==
    SelectSeq(database.training_images, LAMBDA row : row.form_id = formId)
extractionRows(database, formId) ==
    SelectSeq(database.training_extractions, LAMBDA row : row.form_id = formId)

\* The position of the row that ORDER BY page_number puts first
firstByPage(rows) ==
    CHOOSE n \in 1..Len(rows) :
        \A o \in 1..Len(rows) :
            \/ rows[n].page_number < rows[o].page_number
            \/ rows[n].page_number = rows[o].page_number /\ n <= o

without(rows, n) == SubSeq(rows, 1, n - 1) \o SubSeq(rows, n + 1, Len(rows))

\* ORDER BY page_number
RECURSIVE orderedByPage(_)
orderedByPage(rows) ==
    IF rows = << >> THEN << >>
    ELSE << rows[firstByPage(rows)] >>
         \o orderedByPage(without(rows, firstByPage(rows)))

\* The image rows createForm inserts: images.forEach((img, index) => ...)
\* with a uuid for every row, drawn in order after draws others
insertedImages(formId, images_, draws) ==
    [ index \in 1..Len(images_) |->
        [ id          |-> generateId("img", draws + index),
          form_id     |-> formId,
          page_number |-> IF prop(images_[index], "page", 0) # 0
                          THEN images_[index].page ELSE index,
          image_data  |-> images_[index].base64,
          mime_type   |-> IF prop(images_[index], "mimeType", "") # ""
                          THEN images_[index].mimeType ELSE "image/png" ] ]

\* createForm(filename, images, aiExtraction): the database after its
\* transaction, in which formId is the first uuid drawn, the image ids the
\* next ones and the id of the extraction row the last. The columns left
\* out of an INSERT take their defaults: corrected_extraction NULL,
\* is_verified 0.
createForm(database, filename, images_, aiExtraction, draws) ==
    [ training_forms |->
        Append(database.training_forms,
               [ id |-> generateId("form", draws + 1), filename |-> filename,
                 status |-> "pending" ]),
      training_images |->
        database.training_images
        \o insertedImages(generateId("form", draws + 1), images_, draws + 1),
      training_extractions |->
        Append(database.training_extractions,
               [ id |-> generateId("ext", draws + Len(images_) + 2),
                 form_id |-> generateId("form", draws + 1),
                 ai_extraction |-> stringify(aiExtraction),
                 corrected_extraction |-> NULL,
                 is_verified |-> 0 ]) ]

\* updateExtraction(formId, correctedExtraction, isVerified): the database
\* after its transaction of two UPDATE statements, each of which changes
\* the rows that match and no other
updateExtraction(database, formId, correctedExtraction, isVerified) ==
    [ database EXCEPT
        !.training_extractions =
            [ n \in 1..Len(@) |->
                IF @[n].form_id = formId
                THEN [ @[n] EXCEPT
                         !.corrected_extraction = stringify(correctedExtraction),
                         !.is_verified = IF isVerified THEN 1 ELSE 0 ]
                ELSE @[n] ],
        !.training_forms =
            [ n \in 1..Len(@) |->
                IF @[n].id = formId
                THEN [ @[n] EXCEPT
                         !.status = IF isVerified THEN "verified"
                                    ELSE "in_progress" ]
                ELSE @[n] ] ]

\* A variant of deleteForm for a database that does not enforce its
\* foreign keys: the form's row goes, the rows that refer to it stay
deleteFormWithoutCascade(database, formId) ==
    [ database EXCEPT
        !.training_forms = SelectSeq(@, LAMBDA row : row.id # formId) ]

\* deleteForm(formId): DELETE FROM training_forms WHERE id = ?, with the
\* ON DELETE CASCADE of the two foreign keys (schema, lines 35 and 46),
\* which better-sqlite3 enforces by default
deleteForm(database, formId) ==
    [ training_forms |->
        SelectSeq(database.training_forms, LAMBDA row : row.id # formId),
      training_images |->
        SelectSeq(database.training_images, LAMBDA row : row.form_id # formId),
      training_extractions |->
        SelectSeq(database.training_extractions,
                  LAMBDA row : row.form_id # formId) ]

\* extraction?.column ? JSON.parse(extraction.column) : null, for the rows
\* .get() chooses from: the first, or undefined if there is none
parsedColumn(rows, column) ==
    IF rows = << >> THEN null
    ELSE IF rows[1][column] = NULL THEN null
    ELSE parse(rows[1][column])

\* images.map(img => ({ id, page, base64, mimeType }))
imagesOf(rows) ==
    [ n \in 1..Len(rows) |->
        [ id |-> rows[n].id, page |-> rows[n].page_number,
          base64 |-> rows[n].image_data, mimeType |-> rows[n].mime_type ] ]

\* getFormById(formId): null for an unknown id, else the form's row with
\* its images, its two extractions parsed and isVerified
getFormById(database, formId) ==
    IF formRows(database, formId) = << >> THEN null
    ELSE [ id       |-> formId,
           filename |-> formRows(database, formId)[1].filename,
           status   |-> formRows(database, formId)[1].status,
           images   |-> imagesOf(orderedByPage(imageRows(database, formId))),
           aiExtraction |->
               parsedColumn(extractionRows(database, formId), "ai_extraction"),
           correctedExtraction |->
               parsedColumn(extractionRows(database, formId),
                            "corrected_extraction"),
           isVerified |->
               /\ extractionRows(database, formId) # << >>
               /\ extractionRows(database, formId)[1].is_verified = 1 ]

\* The rows of training_forms that the join of getVerifiedForms keeps:
\* those with an extraction row that is verified and has a corrected
\* extraction (form_id is UNIQUE, so a form joins with one row at most)
verifiedRows(database) ==
    SelectSeq(database.training_forms,
              LAMBDA f :
                  \E n \in 1..Len(database.training_extractions) :
                      /\ database.training_extractions[n].form_id = f.id
                      /\ database.training_extractions[n].is_verified = 1
                      /\ database.training_extractions[n].corrected_extraction
                             # NULL)

\* getVerifiedForms(): id, filename and corrected_extraction of every form
\* the join keeps
getVerifiedForms(database) ==
    [ n \in 1..Len(verifiedRows(database)) |->
        [ id       |-> verifiedRows(database)[n].id,
          filename |-> verifiedRows(database)[n].filename,
          corrected_extraction |->
              extractionRows(database, verifiedRows(database)[n].id)[1]
                  .corrected_extraction ] ]

\* The image parts of a training example
imageParts(rows) ==
    [ n \in 1..Len(rows) |->
        [ type |-> "image_url",
          image_url |->
              [ url |-> "data:" \o rows[n].mime_type \o ";base64,"
                        \o rows[n].image_data ] ] ]

\* The training example exportToJsonl builds for one row of
\* getVerifiedForms, as JSON.stringify writes it on one line
exampleLine(database, systemPrompt, form) ==
    [ json |->
        [ messages |->
            << [ role |-> "system", content |-> systemPrompt ],
               [ role |-> "user",
                 content |->
                     << [ type |-> "text",
                          text |-> "Analyze this form and extract its complete structure." ] >>
                     \o imageParts(orderedByPage(imageRows(database, form.id))) ],
               [ role |-> "assistant",
                 content |-> form.corrected_extraction ] >> ] ]

exportLines(database, systemPrompt, forms) ==
    [ n \in 1..Len(forms) |-> exampleLine(database, systemPrompt, forms[n]) ]

\* exportToJsonl(systemPrompt): the lines it joins with "\n", one for every
\* row of getVerifiedForms; no line holds a line break, which
\* JSON.stringify escapes
exportToJsonl(database, systemPrompt) ==
    exportLines(database, systemPrompt, getVerifiedForms(database))

\* SUM(CASE WHEN status = ? THEN 1 ELSE 0 END) over training_forms: the sum
\* of no rows is NULL
sumOfStatus(forms, status) ==
    IF forms = << >> THEN NULL
    ELSE number(Cardinality({ n \in 1..Len(forms) : forms[n].status = status }))

\* getStats()
getStats(database) ==
    [ total       |-> number(Len(database.training_forms)),
      pending     |-> sumOfStatus(database.training_forms, "pending"),
      in_progress |-> sumOfStatus(database.training_forms, "in_progress"),
      verified    |-> sumOfStatus(database.training_forms, "verified") ]

\* POST /api/training/export (unnamed/part_003:206-234): the status and
\* the body of the response
postExportWith(systemPrompt, jsonlData, verifiedCount) ==
    IF systemPrompt = ""
    THEN [ status |-> 400, error |-> "systemPrompt is required" ]
    ELSE IF verifiedCount = number(0)
    THEN [ status |-> 400, error |-> "No verified forms available for export" ]
    ELSE [ status |-> 200, body |-> jsonlData ]

postExport(database, systemPrompt) ==
    postExportWith(systemPrompt, exportToJsonl(database, systemPrompt),
                   getStats(database).verified)

\* ------------------------------------------------------------------------
\* The store under its callers
\* ------------------------------------------------------------------------

\* A parsed structure whose table comes with rows that are no list
rowsObjectDocument ==
    [ t |-> "object", formTitle |-> "Loss runs",
      sections |-> Array(<<
          [ t |-> "object", id |-> "section_1", title |-> "LOSSES", order |-> 1,
            fields |-> Array(<<
                [ t |-> "object", id |-> "field_1", type |-> String(chars_grid),
                  label |-> "Losses", order |-> 1,
                  rows |-> [ t |-> "object" ] ] >>) ] >>) ]

\* What the upload route hands to createForm as aiExtraction: structures
\* extractFormStructure returns
AiExtractions ==
    { normalizeFormStructure(Document("prompt", 1, 2), 0).value,
      normalizeFormStructure(rowsObjectDocument, 0).value }

\* What the PUT route hands to updateExtraction as correctedExtraction:
\* the structure a user saves, which the route requires to be truthy
Corrections ==
    { normalizeFormStructure(Document("prompt", 1, 1), 0).value,
      normalizeFormStructure(Document("odd", 1, 1), 0).value }

\* The page images processFile delivers: one without page and mimeType,
\* and two with their pages out of order
ImageLists ==
    { << [ t |-> "object", base64 |-> "b1" ] >>,
      << [ t |-> "object", page |-> 2, base64 |-> "b2", mimeType |-> "image/jpeg" ],
         [ t |-> "object", page |-> 1, base64 |-> "b1" ] >> }

\* What `given` holds for a form the store was asked to delete
deleted == [ ai |-> none, corrected |-> none, verified |-> FALSE, deleted |-> TRUE ]

InitStore ==
    /\ db = emptyDb
    /\ given = << >>
    /\ uuidDraws = 0
    /\ fn = "trainingService"
    /\ arg = none
    /\ ret = none
    /\ apiKey = TRUE
    /\ images = undefined
    /\ pc = "off"
    /\ i = 0
    /\ batchResults = << >>
    /\ inFlight = { }
    /\ calls = << >>
    /\ responses = << >>
    /\ mergeArgs = << >>
    /\ result = none
    /\ error = noError

\* createForm, for at most MaxForms forms in all
CreateForm ==
    /\ fn = "trainingService"
    /\ Cardinality(DOMAIN given) < MaxForms
    /\ \E images_ \in ImageLists, aiExtraction \in AiExtractions :
         /\ db' = createForm(db, "form.pdf", images_, aiExtraction, uuidDraws)
         /\ uuidDraws' = uuidDraws + Len(images_) + 2
         /\ given' = given @@
                (generateId("form", uuidDraws + 1) :>
                    [ ai |-> aiExtraction, corrected |-> none,
                      verified |-> FALSE, deleted |-> FALSE ])
    /\ UNCHANGED << fn, arg, ret >>
    /\ UNCHANGED callVars

\* updateExtraction, for the id of a form in the store or of one deleted
UpdateExtraction ==
    /\ fn = "trainingService"
    /\ \E formId \in DOMAIN given, correctedExtraction \in Corrections,
          isVerified \in BOOLEAN :
         /\ db' = updateExtraction(db, formId, correctedExtraction, isVerified)
         /\ given' = IF given[formId].deleted THEN given
                     ELSE [ given EXCEPT
                              ![formId].corrected = correctedExtraction,
                              ![formId].verified = isVerified ]
    /\ UNCHANGED << fn, arg, ret >>
    /\ UNCHANGED pipelineVars

DeleteForm ==
    /\ fn = "trainingService"
    /\ \E formId \in DOMAIN given :
         /\ db' = deleteForm(db, formId)
         /\ given' = [ given EXCEPT ![formId] = deleted ]
    /\ UNCHANGED << fn, arg, ret >>
    /\ UNCHANGED pipelineVars

NextStore ==
    \/ CreateForm
    \/ UpdateExtraction
    \/ DeleteForm

StoreSpec == InitStore /\ [][NextStore]_vars

\* ------------------------------------------------------------------------
\* Properties
\* ------------------------------------------------------------------------

\* The ids of the sections of a structure, and of its fields, each as a
\* list of (position, id)
sectionIdsOf(st) == { << k, st.sections[k].id >> : k \in 1..Len(st.sections) }

fieldIdsOf(st) ==
    UNION { { << k, j, st.sections[k].fields[j].id >> :
                j \in 1..Len(st.sections[k].fields) } :
            k \in 1..Len(st.sections) }

\* Section ids pairwise distinct, and field ids pairwise distinct across
\* the whole structure
uniqueIds(st) ==
    /\ \A a, b \in sectionIdsOf(st) : a[2] = b[2] => a = b
    /\ \A a, b \in fieldIdsOf(st) : a[3] = b[3] => a = b

returned == pc = "done"

\* The page sequence is missing or has no page.
noPages == images = undefined \/ images = emptyArray

ceilDiv(a, b) == (a + b - 1) \div b

\* C1: every structure extractFormStructure returns has pairwise-unique
\* section ids and field ids that are pairwise unique across the whole
\* structure.
C1_ReturnedIdsUnique == returned => uniqueIds(result)

\* C2: the structure combineResults returns for any list of k batch
\* results, k = 1 included, has pairwise-unique section ids and
\* pairwise-unique field ids.
C2_MergedIdsUnique ==
    (fn = "combineResults" /\ ret # none) => uniqueIds(ret.value)

\* C2 as amended: the structure combineResults returns for any list of
\* k # 1 batch results has pairwise-unique section ids and pairwise-unique
\* field ids; a single batch result is returned as it is, colliding ids
\* included.
C2_MergedIdsUniqueUnlessSingle ==
    (fn = "combineResults" /\ ret # none) =>
        IF Len(arg) = 1 THEN ret.value = arg[1] ELSE uniqueIds(ret.value)

\* Two or more batch results, one of them with colliding ids of its own,
\* have been combined into a structure of several sections with fields.
C2_Witness ==
    /\ fn = "combineResults"
    /\ ret # none
    /\ Len(arg) >= 2
    /\ \E r \in 1..Len(arg) : ~uniqueIds(arg[r])
    /\ Cardinality(sectionIdsOf(ret.value)) >= 3
    /\ Cardinality(fieldIdsOf(ret.value)) >= 4

\* C3: in every structure extractFormStructure returns, the section at
\* position k of the sections list has order k.
C3_SectionOrderDense ==
    returned => \A k \in 1..Len(result.sections) : result.sections[k].order = k

\* C4: normalizeComponentType returns, without throwing, one of the ten
\* canonical component names for every input.
C4_NormalizeComponentTypeTotal ==
    (fn = "normalizeComponentType" /\ ret # none) =>
        ret.ok /\ ret.value \in validTypes

\* C5: whenever the model's text is no refusal and parses as JSON,
\* processImageBatch returns a structure and throws nothing.
C5_ParsedResponseNeverFails ==
    \A k \in 1..Len(responses) :
        ( /\ responses[k].response.kind = "completion"
          /\ ~isFalsy(responseContent(responses[k].response))
          /\ ~isRefusal(toLowerCase(responseContent(responses[k].response).cs))
          /\ safeJsonParse(extractJsonFromText(
                 responseContent(responses[k].response).cs)).success )
        => responses[k].out.ok

\* C6: once the model call or the response handling of a batch has failed,
\* extractFormStructure has thrown, has returned nothing, has called
\* combineResults never, and has issued no model call after the failed one.
C6_BatchFailureAborts ==
    \A k \in 1..Len(responses) :
        ~responses[k].out.ok =>
            /\ pc = "failed"
            /\ error # noError
            /\ result = none
            /\ mergeArgs = << >>
            /\ inFlight = { }
            /\ k = Len(responses)
            /\ Len(calls) = k
            /\ responses[k].call = k

\* The second batch of three has failed after the first succeeded.
C6_Witness ==
    /\ pc = "failed"
    /\ Len(responses) = 2
    /\ responses[1].out.ok
    /\ ~responses[2].out.ok
    /\ Len(batchResults) = 1
    /\ ceilDiv(Len(images.v), MAX_PAGES_PER_BATCH) = 3

\* C7: at most one model call is in flight, the call for a batch is issued
\* only when every earlier call has been answered, the responses come in
\* the order of the calls, and combineResults gets the batch results in
\* the order of the batches.
C7_StrictlySequential ==
    /\ Cardinality(inFlight) <= 1
    /\ Len(calls) <= Len(responses) + 1
    /\ inFlight \subseteq { Len(calls) }
    /\ \A k \in 1..Len(responses) : responses[k].call = k
    /\ \A a, b \in 1..Len(calls) : a < b => calls[a].startPage < calls[b].startPage
    /\ \A m \in 1..Len(mergeArgs) :
         /\ Len(mergeArgs[m]) = Len(calls)
         /\ \A k \in 1..Len(calls) : mergeArgs[m][k] = responses[k].out.value

\* Three batches have been answered one after the other and combined.
C7_Witness ==
    /\ returned
    /\ Len(calls) = 3
    /\ Len(responses) = 3
    /\ Len(mergeArgs) = 1
    /\ mergeArgs[1][1] # mergeArgs[1][2]
    /\ mergeArgs[1][2] # mergeArgs[1][3]

\* C8: a successful extraction over L pages has issued exactly
\* ceil(L / MAX_PAGES_PER_BATCH) model calls, one when L is at most
\* MAX_PAGES_PER_BATCH; a failing one has issued at most that many; no
\* batch is ever called twice.
C8_OneCallPerBatch ==
    /\ noPages => calls = << >>
    /\ ~noPages =>
         /\ Len(calls) <= ceilDiv(Len(images.v), MAX_PAGES_PER_BATCH)
         /\ returned => Len(calls) = ceilDiv(Len(images.v), MAX_PAGES_PER_BATCH)
         /\ (returned /\ Len(images.v) <= MAX_PAGES_PER_BATCH) => Len(calls) = 1
    /\ \A a, b \in 1..Len(calls) :
         calls[a].startPage = calls[b].startPage => a = b
    /\ Len(responses) <= Len(calls)

\* An extraction over seven pages has returned after three calls.
C8_Witness ==
    /\ returned
    /\ Len(images.v) = 2 * MAX_PAGES_PER_BATCH + 1
    /\ Len(calls) = 3

\* C9: the batches sent to the model are contiguous, non-overlapping
\* windows of the page sequence in its order; batch n (0-based) is
\* announced with startPage n * MAX_PAGES_PER_BATCH + 1; every batch but
\* the last has MAX_PAGES_PER_BATCH pages; and when the extraction returns
\* there are ceil(L / MAX_PAGES_PER_BATCH) of them, covering every page
\* once.
C9_BatchesAreWindows ==
    /\ \A n \in 1..Len(calls) :
         /\ calls[n].startPage = (n - 1) * MAX_PAGES_PER_BATCH + 1
         /\ calls[n].totalPages = Len(images.v)
         /\ Len(calls[n].pages) >= 1
         /\ Len(calls[n].pages) <= MAX_PAGES_PER_BATCH
         /\ n < Len(calls) => Len(calls[n].pages) = MAX_PAGES_PER_BATCH
         /\ \A j \in 1..Len(calls[n].pages) :
              calls[n].pages[j] = images.v[calls[n].startPage + j - 1]
    /\ returned =>
         /\ Len(calls) = ceilDiv(Len(images.v), MAX_PAGES_PER_BATCH)
         /\ \A p \in 1..Len(images.v) :
              Cardinality({ << n, j >> \in (1..Len(calls)) \X (1..MAX_PAGES_PER_BATCH) :
                              /\ j <= Len(calls[n].pages)
                              /\ calls[n].startPage + j - 1 = p }) = 1

\* Seven pages have gone out as windows of three, three and one page.
C9_Witness ==
    /\ returned
    /\ Len(calls) = 3
    /\ Len(calls[1].pages) = MAX_PAGES_PER_BATCH
    /\ Len(calls[2].pages) = MAX_PAGES_PER_BATCH
    /\ Len(calls[3].pages) = 1
    /\ calls[3].pages = << 2 * MAX_PAGES_PER_BATCH + 1 >>

\* C10: an empty or missing page sequence makes extractFormStructure fail
\* with the empty-input error before any model call and any batching.
C10_EmptyInputError ==
    (noPages /\ pc # "idle") =>
        /\ pc = "failed"
        /\ error = EmptyInputError
        /\ calls = << >>
        /\ batchResults = << >>

\* C10 as amended: an empty or missing page sequence makes
\* extractFormStructure fail before any model call and any batching, with
\* the empty-input error when a model credential is configured and with
\* the configuration error when none is.
C10_EmptyInputFailsFirst ==
    (noPages /\ pc # "idle") =>
        /\ pc = "failed"
        /\ error = IF apiKey THEN EmptyInputError ELSE ConfigurationError
        /\ calls = << >>
        /\ inFlight = { }
        /\ batchResults = << >>
        /\ i = 0

\* A call with a credential and an empty page list has failed with the
\* empty-input error.
C10_Witness ==
    /\ apiKey
    /\ images = emptyArray
    /\ pc = "failed"
    /\ error = EmptyInputError
    /\ calls = << >>

\* C11: without a model credential extractFormStructure fails with the
\* configuration error, whatever the input, and no model call is ever
\* issued; the credential is tested before the input, so an empty or
\* missing input without a credential reports the configuration error too.
C11_ConfigurationErrorFirst ==
    ( ~apiKey /\ pc # "idle" ) =>
        /\ pc = "failed"
        /\ error = ConfigurationError
        /\ error # EmptyInputError
        /\ calls = << >>
        /\ inFlight = { }
        /\ responses = << >>
        /\ result = none

\* A call without a credential and with an empty page list has failed.
C11_Witness ==
    /\ ~apiKey
    /\ images = emptyArray
    /\ pc = "failed"
    /\ error = ConfigurationError

\* The refusal phrases as the specification writes them
phrase_Im_sorry == << "I", "'", "m", " ", "s", "o", "r", "r", "y" >>
phrase_I_cannot == << "I", " ", "c", "a", "n", "n", "o", "t" >>
phrase_I_cant == << "I", " ", "c", "a", "n", "'", "t" >>

\* text holds phrase at some position, letter case aside
containsIgnoringCase(text, phrase) ==
    \E n \in 1..(Len(text) - Len(phrase) + 1) :
        \A j \in 1..Len(phrase) :
            toLowerCase(<< text[n + j - 1] >>) = toLowerCase(<< phrase[j] >>)

\* The text of a response with text content
hasText(response) ==
    /\ response.kind = "completion"
    /\ ~isFalsy(responseContent(response))

\* C12: a response whose text holds "I'm sorry", "I cannot" or "I can't" in
\* any letter case makes processImageBatch fail with the refusal error,
\* which is not the parse-failure error, without extractJsonFromText or
\* safeJsonParse having been called on the text.
C12_RefusalBeforeParsing ==
    ( /\ fn = "processImageBatch"
      /\ ret # none
      /\ hasText(arg.response)
      /\ \E phrase \in { phrase_Im_sorry, phrase_I_cannot, phrase_I_cant } :
             containsIgnoringCase(responseContent(arg.response).cs, phrase) )
    => /\ ~ret.ok
       /\ ret.err \in { RefusalError, StandaloneRefusalError }
       /\ ret.err \notin { MalformedOutputError, StandaloneMalformedOutputError }
       /\ ret.called = << >>

\* The text of a response is no refusal and fails to parse
parseFails(response) ==
    /\ hasText(response)
    /\ ~isRefusal(toLowerCase(responseContent(response).cs))
    /\ ~safeJsonParse(extractJsonFromText(responseContent(response).cs)).success

\* An Error carries a text when one of its properties is that text
carries(err, text) == \E name \in DOMAIN err : err[name] = str(text)

\* C13: when the extracted payload fails to parse, safeJsonParse returns a
\* failure value instead of throwing, and the parse error thrown for it
\* carries the original raw text of the model.
C13_ParseErrorCarriesRawText ==
    \A k \in 1..Len(responses) :
        parseFails(responses[k].response) =>
            /\ ~responses[k].out.ok
            /\ responses[k].out.err = MalformedOutputError
            /\ carries(responses[k].out.err,
                       responseContent(responses[k].response).cs)

\* C13 as amended: when the extracted payload fails to parse, safeJsonParse
\* returns a failure value instead of throwing, processImageBatch writes
\* the original raw text to the error log and throws the parse error with
\* its fixed message, which is what extractFormStructure fails with.
C13_ParseErrorLogsRawText ==
    \A k \in 1..Len(responses) :
        parseFails(responses[k].response) =>
            /\ ~responses[k].out.ok
            /\ responses[k].out.err = MalformedOutputError
            /\ responses[k].out.err.message
                   = "Invalid JSON response from AI. Please try again."
            /\ responses[k].out.console
                   = << responseContent(responses[k].response).cs >>
            /\ k = Len(responses) /\ pc = "failed"
            /\ error = MalformedOutputError

\* The second batch of a document has failed to parse on a text that
\* extractJsonFromText cut a payload out of.
C13_Witness ==
    /\ pc = "failed"
    /\ Len(responses) = 2
    /\ parseFails(responses[2].response)
    /\ extractJsonFromText(responseContent(responses[2].response).cs)
           # responseContent(responses[2].response).cs
    /\ error = MalformedOutputError

\* A response without text content: no choice, a choice without a message,
\* or a message whose content is null or the empty string
noTextContent(response) ==
    /\ response.kind = "completion"
    /\ \/ response.choices = << >>
       \/ "message" \notin DOMAIN response.choices[1]
       \/ response.choices[1].message.content \in { null, String(<< >>) }

\* The response holds a refusal phrase
refuses(response) ==
    /\ hasText(response)
    /\ \E phrase \in { phrase_Im_sorry, phrase_I_cannot, phrase_I_cant } :
           containsIgnoringCase(responseContent(response).cs, phrase)

\* After response k the job is over with error err: nothing is returned,
\* nothing merged, no call issued after the one answered, none in flight
abortedAt(k, err) ==
    /\ k = Len(responses)
    /\ pc = "failed"
    /\ error = err
    /\ result = none
    /\ mergeArgs = << >>
    /\ Len(calls) = k
    /\ inFlight = { }

\* C14: a response without text content makes the batch fail with the
\* empty-response error before the text is tested for a refusal, extracted
\* or parsed, and the whole job is aborted by it just as by a refusal.
C14_EmptyResponseAborts ==
    \A k \in 1..Len(responses) :
        /\ noTextContent(responses[k].response) =>
               /\ responses[k].out
                      = threw(EmptyResponseError, << >>, << >>)
               /\ responses[k].out.called = << >>
               /\ abortedAt(k, EmptyResponseError)
        /\ refuses(responses[k].response) =>
               /\ responses[k].out.err = RefusalError
               /\ abortedAt(k, RefusalError)

\* The third batch of a document came back without a choice, after two
\* batches that gave a structure.
C14_Witness ==
    /\ Len(responses) = 3
    /\ responses[1].out.ok
    /\ responses[2].out.ok
    /\ responses[3].response = completion(<< >>)
    /\ pc = "failed"
    /\ error = EmptyResponseError

\* C15: an error of the model call with code insufficient_quota or
\* invalid_api_key is reported with a message of its own, and every other
\* error of the model call, a timeout for one, is thrown on as it came; none
\* is reported as the parse-failure or the refusal error.
C15_UpstreamErrorsPassThrough ==
    \A k \in 1..Len(responses) :
        responses[k].response.kind = "error" =>
            /\ k = Len(responses) /\ pc = "failed"
            /\ responses[k].response.code = "insufficient_quota" =>
                   error.message
                       = "OpenAI API quota exceeded. Please check your billing."
            /\ responses[k].response.code = "invalid_api_key" =>
                   error.message = "Invalid OpenAI API key"
            /\ responses[k].response.code
                   \notin { "insufficient_quota", "invalid_api_key" } =>
                   /\ error = responses[k].out.err
                   /\ error.code = responses[k].response.code
            /\ error \notin { MalformedOutputError, RefusalError,
                              EmptyResponseError, TypeError }

\* The model call for the second batch of a document has timed out.
C15_Witness ==
    /\ Len(responses) = 2
    /\ responses[1].out.ok
    /\ responses[2].response = [ kind |-> "error", code |-> "timeout" ]
    /\ pc = "failed"
    /\ error = UpstreamError("timeout")

\* combineResults has been applied to a list of n results
merged(n) == fn = "combineResults" /\ ret # none /\ Len(arg) = n

\* C16: combineResults of a list of one batch result returns that result
\* unchanged, with the ids, the orders and the formTitle it came with.
C16_SingleResultUnchanged ==
    merged(1) =>
        /\ ret.value = arg[1]
        /\ ret.value.formTitle = arg[1].formTitle
        /\ \A k \in 1..Len(arg[1].sections) :
               /\ ret.value.sections[k].id = arg[1].sections[k].id
               /\ ret.value.sections[k].order = arg[1].sections[k].order
               /\ ret.value.sections[k].fields = arg[1].sections[k].fields

\* A single result with two sections of one id and one order, and in them
\* fields of one id, has been merged.
C16_Witness ==
    /\ merged(1)
    /\ Len(arg[1].sections) = 2
    /\ arg[1].sections[1].id = arg[1].sections[2].id
    /\ arg[1].sections[1].order = 9
    /\ Len(arg[1].sections[1].fields) = 2
    /\ arg[1].sections[1].fields[1].id = arg[1].sections[1].fields[2].id
    /\ ret.value.sections[1].order = 9

\* The number of sections in the results before result r
RECURSIVE sectionsBefore(_, _)
sectionsBefore(results, r) ==
    IF r = 1 THEN 0
    ELSE sectionsBefore(results, r - 1) + Len(results[r - 1].sections)

\* A field but for its id
withoutId(field) == [ field EXCEPT !.id = "" ]

\* C17: the sections of the merged structure, told apart by title and by
\* what their fields hold, are the sections of the first batch in their
\* order, then those of the second, and so on: as many as the batches have
\* together, each with its fields in their number and order.
C17_MergePreservesOrder ==
    ( fn = "combineResults" /\ ret # none /\ Len(arg) >= 2 ) =>
        /\ Len(ret.value.sections) = sectionsBefore(arg, Len(arg) + 1)
        /\ \A r \in 1..Len(arg) :
             \A s \in 1..Len(arg[r].sections) :
               /\ ret.value.sections[sectionsBefore(arg, r) + s].title
                      = arg[r].sections[s].title
               /\ Len(ret.value.sections[sectionsBefore(arg, r) + s].fields)
                      = Len(arg[r].sections[s].fields)
               /\ \A j \in 1..Len(arg[r].sections[s].fields) :
                      withoutId(ret.value.sections[sectionsBefore(arg, r) + s].fields[j])
                          = withoutId(arg[r].sections[s].fields[j])

\* Three results have been merged, the first with two sections of
\* different titles and the last with a section of yet another title.
C17_Witness ==
    /\ merged(3)
    /\ Len(arg[1].sections) = 2
    /\ arg[1].sections[1].title # arg[1].sections[2].title
    /\ Len(arg[2].sections) = 0
    /\ Len(arg[3].sections) = 1
    /\ arg[3].sections[1].title \notin
           { arg[1].sections[1].title, arg[1].sections[2].title }
    /\ Len(arg[3].sections[1].fields) = 2
    /\ Len(ret.value.sections) = 3

\* Two or more results have been merged, by combineResults or by the
\* stand-alone server
mergedSeveral ==
    /\ fn \in { "combineResults", "standaloneCombine" }
    /\ ret # none
    /\ Len(arg) >= 2

\* C18: when two or more results are merged, the section at position k of
\* the merged list, counted from 1 across all batches, has id section_<k>
\* and order k, and its j-th field, counted from 1, has id field_<k>_<j>.
C18_RunningIds ==
    mergedSeveral =>
        \A k \in 1..Len(ret.value.sections) :
            /\ ret.value.sections[k].id = "section_" \o ToString(k)
            /\ ret.value.sections[k].order = k
            /\ \A j \in 1..Len(ret.value.sections[k].fields) :
                   ret.value.sections[k].fields[j].id
                       = "field_" \o ToString(k) \o "_" \o ToString(j)

\* Three results of one section each, with 1, 2 and 1 fields, have been
\* merged into section_1..section_3 with fields field_1_1, field_2_1,
\* field_2_2 and field_3_1.
C18_Witness ==
    /\ mergedSeveral
    /\ Len(arg) = 3
    /\ \A r \in 1..3 : Len(arg[r].sections) = 1
    /\ Len(arg[1].sections[1].fields) = 1
    /\ Len(arg[2].sections[1].fields) = 2
    /\ Len(arg[3].sections[1].fields) = 1
    /\ [ k \in 1..3 |-> ret.value.sections[k].id ]
           = << "section_1", "section_2", "section_3" >>
    /\ ret.value.sections[1].fields[1].id = "field_1_1"
    /\ ret.value.sections[2].fields[1].id = "field_2_1"
    /\ ret.value.sections[2].fields[2].id = "field_2_2"
    /\ ret.value.sections[3].fields[1].id = "field_3_1"

\* C19: when two or more results are merged, the merged formTitle is that
\* of the first result, whatever the titles of the later ones.
C19_FirstTitleWins ==
    mergedSeveral => ret.value.formTitle = arg[1].formTitle

\* Three results of three different titles have been merged.
C19_Witness ==
    /\ mergedSeveral
    /\ Len(arg) = 3
    /\ arg[1].formTitle = "Supplement"
    /\ arg[2].formTitle = "Application"
    /\ arg[3].formTitle = "Untitled Form"
    /\ ret.value.formTitle = "Supplement"

\* C20: merging changes nothing but the ids and the sections' order: every
\* field of the merged structure has the properties of the field it came
\* from, no more and no fewer, with the same values but for id (its order
\* among them), and every section keeps its title.
C20_MergeChangesIdsOnly ==
    ( fn = "combineResults" /\ ret # none /\ Len(arg) >= 2 ) =>
        \A r \in 1..Len(arg) :
          \A s \in 1..Len(arg[r].sections) :
            /\ DOMAIN ret.value.sections[sectionsBefore(arg, r) + s]
                   = DOMAIN arg[r].sections[s]
            /\ ret.value.sections[sectionsBefore(arg, r) + s].title
                   = arg[r].sections[s].title
            /\ \A j \in 1..Len(arg[r].sections[s].fields) :
                 /\ DOMAIN ret.value.sections[sectionsBefore(arg, r) + s].fields[j]
                        = DOMAIN arg[r].sections[s].fields[j]
                 /\ \A name \in DOMAIN arg[r].sections[s].fields[j] \ { "id" } :
                        ret.value.sections[sectionsBefore(arg, r) + s].fields[j][name]
                            = arg[r].sections[s].fields[j][name]

\* Merged results in which a field has options, one columns and a
\* rowCount, one a placeholder, and one an order that is not its position.
C20_Witness ==
    /\ fn = "combineResults" /\ ret # none /\ Len(arg) = 3
    /\ Len(arg[1].sections) = 1 /\ Len(arg[1].sections[1].fields) = 2
    /\ Len(arg[2].sections) = 2 /\ Len(arg[2].sections[1].fields) = 2
    /\ Len(arg[3].sections) = 1 /\ Len(arg[3].sections[1].fields) = 1
    /\ Len(ret.value.sections) = 4
    /\ "options" \in DOMAIN ret.value.sections[1].fields[1]
    /\ "rowCount" \in DOMAIN ret.value.sections[1].fields[2]
    /\ "columns" \in DOMAIN ret.value.sections[1].fields[2]
    /\ "placeholder" \in DOMAIN ret.value.sections[2].fields[2]
    /\ ret.value.sections[4].fields[1].order = 7
    /\ ret.value.sections[4].fields[1].id = "field_4_1"

spells(cs, key) ==
    /\ Len(cs) = Len(key)
    /\ \A n \in 1..Len(key) :
         \/ cs[n] = key[n]
         \/ key[n] \in DOMAIN lowerToUpper /\ cs[n] = lowerToUpper[key[n]]

\* the keys of the synonym table the value spells
keysSpelled(type) ==
    IF type.t = "string" THEN { key \in synonymChars : spells(type.cs, key) }
    ELSE { }

\* C22: normalizeComponentType returns, for a value that spells a key of
\* the synonym table in any letter case, the kind listed for that key
\* (checkbox and checkboxes give Multi-Select, grid gives Table, instruction,
\* note and header give Title, textarea and paragraph give Long Input), and
\* Short Input for every other value: an empty or undefined one and one that
\* spells no key.
C22_SynonymsOrShortInput ==
    (fn = "normalizeComponentType" /\ ret # none) =>
        /\ ret.ok
        /\ \A key \in keysSpelled(arg) : ret.value = typeMap[str(key)]
        /\ keysSpelled(arg) = { } => ret.value = "Short Input"

\* The part of C22 about the values that spell a key
C22_SynonymsCaseInsensitive ==
    (fn = "normalizeComponentType" /\ ret # none) =>
        \A key \in keysSpelled(arg) : ret.ok /\ ret.value = typeMap[str(key)]

\* GRID, Checkboxes and header have been normalized
C22_SynonymsWitness ==
    /\ fn = "normalizeComponentType"
    /\ ret # none
    /\ arg \in { String(<< "G", "R", "I", "D" >>),
                 String(<< "N", "o", "t", "e" >>),
                 String(<< "p", "a", "r", "a", "g", "r", "a", "p", "h" >>) }
    /\ ret.value \in { "Table", "Title", "Long Input" }

\* C23: component normalization is idempotent: normalizing what
\* normalizeComponentType returned returns it again, for every input; in
\* particular each of the ten canonical names is returned unchanged.
C23_NormalizeComponentTypeIdempotent ==
    (fn = "normalizeComponentType" /\ ret # none) =>
        /\ "again" \in DOMAIN ret =>
               ret.again = [ ok |-> TRUE, value |-> ret.value ]
        /\ (arg.t = "string" /\ arg.cs \in canonicalChars) =>
               ret.ok /\ ret.value = str(arg.cs)

\* The part of C23 about inputs that are a canonical name or spell a key of
\* the synonym table
C23_KnownNamesIdempotent ==
    ( /\ fn = "normalizeComponentType"
      /\ ret # none
      /\ keysSpelled(arg) # { } ) =>
        /\ ret.ok
        /\ "again" \in DOMAIN ret =>
               ret.again = [ ok |-> TRUE, value |-> ret.value ]

\* a synonym was normalized and its canonical name normalized again
C23_KnownNamesWitness ==
    /\ fn = "normalizeComponentType"
    /\ arg = String(<< "g", "r", "i", "d" >>)
    /\ "again" \in DOMAIN ret
    /\ ret.again.value = "Table"

\* C24: in every field normalizeField returns, options is present exactly
\* when the component is Multi-Select, Radio Select or Dropdown, and is
\* then a list; columns and rowCount are present exactly when the component
\* is Table, and are then a list and a number; no other kind carries them,
\* whatever the model supplied.
C24_OptionsColumnsRowCount ==
    (fn = "normalizeField" /\ ret # none /\ ret.ok) =>
        /\ "options" \in DOMAIN ret.value <=> isSelect(ret.value.component)
        /\ "columns" \in DOMAIN ret.value <=> ret.value.component = "Table"
        /\ "rowCount" \in DOMAIN ret.value <=> ret.value.component = "Table"
        /\ "options" \in DOMAIN ret.value => ret.value.options.t = "array"
        /\ "columns" \in DOMAIN ret.value => ret.value.columns.t = "array"
        /\ "rowCount" \in DOMAIN ret.value => ret.value.rowCount.t = "number"

\* The part of C24 about which kinds carry options, columns and rowCount,
\* and about the defaults of a field that supplies none of them
C24_PresenceByKind ==
    (fn = "normalizeField" /\ ret # none /\ ret.ok) =>
        /\ "options" \in DOMAIN ret.value <=> isSelect(ret.value.component)
        /\ "columns" \in DOMAIN ret.value <=> ret.value.component = "Table"
        /\ "rowCount" \in DOMAIN ret.value <=> ret.value.component = "Table"
        /\ ( /\ "options" \in DOMAIN ret.value
             /\ "options" \notin DOMAIN arg.field ) =>
               ret.value.options = emptyArray
        /\ ( /\ "columns" \in DOMAIN ret.value
             /\ "columns" \notin DOMAIN arg.field ) =>
               ret.value.columns = emptyArray
        /\ ( /\ "rowCount" \in DOMAIN ret.value
             /\ { "rowCount", "rows" } \cap DOMAIN arg.field = { } ) =>
               ret.value.rowCount = [ t |-> "number", n |-> 0 ]

\* a field that is no select and no table came with options, columns and
\* rowCount and was normalized without them
C24_PresenceWitness ==
    /\ fn = "normalizeField"
    /\ ret # none
    /\ ret.ok
    /\ ret.value.component = "Short Input"
    /\ { "options", "columns", "rowCount" } \subseteq DOMAIN arg.field
    /\ { "options", "columns", "rowCount" } \cap DOMAIN ret.value = { }

\* C25: normalizeField fills what is missing with defaults that depend on
\* the position alone: a field without an id at 1-based position n gets
\* the id field_<n>, a missing label becomes "Field <n>", required is a
\* boolean, a missing order becomes n; so normalizing the same field twice
\* yields the same id. (A section without an id gets its id from the same
\* generateId.)
C25_PositionalDefaults ==
    (fn = "normalizeField" /\ ret # none /\ ret.ok) =>
        /\ "id" \notin DOMAIN arg.field =>
               ret.value.id = "field_" \o ToString(arg.fieldIndex + 1)
        /\ "label" \notin DOMAIN arg.field =>
               ret.value.label = "Field " \o ToString(arg.fieldIndex + 1)
        /\ ret.value.required \in BOOLEAN
        /\ "order" \notin DOMAIN arg.field =>
               ret.value.order = arg.fieldIndex + 1
        /\ "again" \in DOMAIN ret =>
               ret.again.ok /\ ret.again.value.id = ret.value.id

\* The part of C25 about label, required and order, and about everything
\* but the id being the same when the field is normalized twice
C25_DefaultsButId ==
    (fn = "normalizeField" /\ ret # none /\ ret.ok) =>
        /\ "id" \in DOMAIN arg.field => ret.value.id = arg.field.id
        /\ "label" \notin DOMAIN arg.field =>
               ret.value.label = "Field " \o ToString(arg.fieldIndex + 1)
        /\ ret.value.required \in BOOLEAN
        /\ "order" \notin DOMAIN arg.field =>
               ret.value.order = arg.fieldIndex + 1
        /\ "again" \in DOMAIN ret =>
               /\ ret.again.ok
               /\ [ ret.again.value EXCEPT !.id = "" ]
                    = [ ret.value EXCEPT !.id = "" ]

\* the second field of a section, without an id, was normalized twice and
\* got two ids
C25_DefaultsWitness ==
    /\ fn = "normalizeField"
    /\ ret # none
    /\ "again" \in DOMAIN ret
    /\ arg.fieldIndex = 1
    /\ "id" \notin DOMAIN arg.field
    /\ ret.value.label = "Field 2"
    /\ ret.value.order = 2
    /\ ret.again.value.id # ret.value.id

\* The first fenced code block of a text: its opening fence is the first
\* fence that has another fence after it, its info string is what stands
\* on the opening fence's line, and its inner content is what stands
\* between that line and the closing fence.
blockOpening(text) ==
    first({ n \in occurrences(text, fence, 1) :
              occurrences(text, fence, n + 3) # { } })
blockClosing(text) == first(occurrences(text, fence, blockOpening(text) + 3))
infoEnd(text) ==
    first({ n \in (blockOpening(text) + 3)..blockClosing(text) :
              text[n] = "\n" \/ n = blockClosing(text) })
infoString(text) == SubSeq(text, blockOpening(text) + 3, infoEnd(text) - 1)
innerContent(text) == trim(SubSeq(text, infoEnd(text), blockClosing(text) - 1))

\* the part of a text from its first opening brace to its last closing one
braced(text) ==
    SubSeq(text, first({ n \in 1..Len(text) : text[n] = "{" }),
                 last({ n \in 1..Len(text) : text[n] = "}" }))

hasBraces(text) ==
    \E m, n \in 1..Len(text) : m < n /\ text[m] = "{" /\ text[n] = "}"

\* C26: extractJsonFromText applies three rules in order: of a text with a
\* fenced code block it returns the trimmed inner content of the first
\* block; of any other text with a "{" and a later "}" it returns the part
\* from the first "{" to the last "}"; any other text it returns unchanged.
\* A fenced JSON object preceded by prose extracts to exactly that object,
\* which parses.
C26_ExtractionRules ==
    (fn = "extractJsonFromText" /\ ret # none) =>
        /\ ret.value =
             IF blockOpening(arg) # 0 THEN innerContent(arg)
             ELSE IF hasBraces(arg) THEN braced(arg)
             ELSE arg
        /\ ( /\ blockOpening(arg) > 1
             /\ Len(innerContent(arg)) = 3
             /\ safeJsonParse(innerContent(arg)).success ) =>
               safeJsonParse(ret.value).success

\* The part of C26 about the texts whose first fence is untagged or tagged
\* json, and about the texts without a fenced block
C26_RulesForJsonFences ==
    ( /\ fn = "extractJsonFromText"
      /\ ret # none
      /\ blockOpening(arg) # 0 => infoString(arg) \in { << >>, chars_json } ) =>
        /\ ret.value =
             IF blockOpening(arg) # 0 THEN innerContent(arg)
             ELSE IF hasBraces(arg) THEN braced(arg)
             ELSE arg
        /\ ( /\ blockOpening(arg) > 1
             /\ Len(innerContent(arg)) = 3
             /\ safeJsonParse(innerContent(arg)).success ) =>
               safeJsonParse(ret.value).success

\* an object in a fence tagged json, after prose, was extracted and parses
C26_JsonFenceWitness ==
    /\ fn = "extractJsonFromText"
    /\ ret # none
    /\ arg = text_fenced
    /\ ret.value = objectText(membersOf("prompt", MaxSections, 1))
    /\ safeJsonParse(ret.value).success

\* A field, and a structure, as reading its properties shows it: a property
\* whose value is undefined reads as one that is not there
definedProperties(field) ==
    [ key \in { k \in DOMAIN field :
                  k \in { "options", "columns", "rowCount" }
                      => field[k].t # "undefined" } |-> field[key] ]

asRead(structure) ==
    [ structure EXCEPT
        !.sections =
            [ k \in 1..Len(@) |->
                [ @[k] EXCEPT
                    !.fields = [ j \in 1..Len(@) |-> definedProperties(@[j]) ] ] ] ]

\* the ids of the forms the store was handed and not asked to delete
kept == { formId \in DOMAIN given : ~given[formId].deleted }

orphans(table) ==
    { n \in 1..Len(table) : formRows(db, table[n].form_id) = << >> }

\* C28: in every state of the store every stored form has exactly one
\* extraction row; its status is pending, in_progress or verified, and is
\* verified exactly when that row has is_verified = 1; a form not yet
\* updated is pending and unverified; and a deleted form has no row left
\* in any table.
C28_StoreConsistent ==
    fn = "trainingService" =>
        /\ \A n \in 1..Len(db.training_forms) :
             /\ Len(extractionRows(db, db.training_forms[n].id)) = 1
             /\ db.training_forms[n].status
                    \in { "pending", "in_progress", "verified" }
             /\ db.training_forms[n].status = "verified"
                    <=> extractionRows(db, db.training_forms[n].id)[1]
                            .is_verified = 1
        /\ \A formId \in kept :
             given[formId].corrected = none =>
                 /\ getFormById(db, formId).status = "pending"
                 /\ ~getFormById(db, formId).isVerified
        /\ \A formId \in DOMAIN given \ kept :
             /\ formRows(db, formId) = << >>
             /\ imageRows(db, formId) = << >>
             /\ extractionRows(db, formId) = << >>
        /\ orphans(db.training_images) = { }
        /\ orphans(db.training_extractions) = { }

\* one form with images was deleted, and another is verified
C28_Witness ==
    /\ fn = "trainingService"
    /\ DOMAIN given \ kept # { }
    /\ \E formId \in kept :
         /\ getFormById(db, formId).status = "verified"
         /\ getFormById(db, formId).isVerified
         /\ Len(getFormById(db, formId).images) = 2

\* the forms currently verified: those last saved with isVerified true and
\* not deleted since
verifiedNow == { formId \in kept : given[formId].verified }

\* the export has one line for every form currently verified and no other
\* line, and the line of a form holds its corrected extraction
exportsVerifiedNow(lines, forms) ==
    /\ Len(lines) = Cardinality(verifiedNow)
    /\ { forms[n].id : n \in 1..Len(forms) } = verifiedNow
    /\ \A n \in 1..Len(lines) :
         /\ lines[n].json.messages[3].role = "assistant"
         /\ parse(lines[n].json.messages[3].content)
                = asRead(given[forms[n].id].corrected)

\* C29: in every state of the store exportToJsonl emits exactly one
\* training example for every form that is currently verified and none for
\* a pending, in-progress or deleted form, and the number of its lines is
\* getStats().verified.
C29_ExportCountsVerified ==
    fn = "trainingService" =>
        /\ exportsVerifiedNow(exportToJsonl(db, "P"), getVerifiedForms(db))
        /\ getStats(db).verified = number(Len(exportToJsonl(db, "P")))

\* The part of C29 about which forms are exported, and about the count
\* while the store holds a form
C29_ExportsVerifiedForms ==
    fn = "trainingService" =>
        /\ exportsVerifiedNow(exportToJsonl(db, "P"), getVerifiedForms(db))
        /\ db.training_forms # << >> =>
               getStats(db).verified = number(Len(exportToJsonl(db, "P")))

\* of two forms with a corrected extraction one is verified and exported,
\* the other was saved unverified and is not
C29_ExportsWitness ==
    /\ fn = "trainingService"
    /\ Cardinality(kept) = 2
    /\ \A formId \in kept : given[formId].corrected # none
    /\ Cardinality(verifiedNow) = 1
    /\ Len(exportToJsonl(db, "P")) = 1
    /\ getStats(db).in_progress = number(1)
    /\ postExport(db, "P").status = 200

\* C30: a response is accepted only if its text holds no refusal phrase
\* anywhere: a response that holds "i'm sorry", "i cannot" or "i can't" in
\* any letter case, also one with a well-formed JSON structure in it, is
\* rejected as a refusal and ends the job, so that no structure returned
\* comes from a response that holds one of the phrases.
C30_NoRefusalAccepted ==
    /\ \A k \in 1..Len(responses) :
         refuses(responses[k].response) =>
             /\ ~responses[k].out.ok
             /\ responses[k].out.err = RefusalError
             /\ abortedAt(k, RefusalError)
    /\ returned => \A k \in 1..Len(responses) : ~refuses(responses[k].response)

\* the second batch of a job came back with a structure that parses,
\* after the words "i Can'T see p2", and the job failed as refused
C30_Witness ==
    /\ Len(responses) = 2
    /\ responses[1].out.ok
    /\ responses[2].response = completion(<< choice(String(text_cantThenObject)) >>)
    /\ safeJsonParse(extractJsonFromText(text_cantThenObject)).success
    /\ pc = "failed"
    /\ error = RefusalError
    /\ result = none

=========================================================================
